---- MODULE Spec2Model ----
(***************************************************************************)
(* The PCB component autoplacer of autopcb/layout/autoplacement.py with    *)
(* the geometry primitives of autopcb/datatypes/common.py and the          *)
(* footprint operations of autopcb/datatypes/pcb.py.                       *)
(*                                                                         *)
(* Numbers.  The program computes coordinates in floats.  The model holds  *)
(* every coordinate and length as an integer number of 1/Unit, so that the *)
(* halves of pad sizes and the means taken by get_search_center are exact: *)
(* the program value v is the model value v * Unit.  Rotations are degrees *)
(* and are not scaled; the model covers rotations that are multiples of    *)
(* 90, the only ones the autoplacer produces.  The sine and cosine of such *)
(* a rotation are off by about 1e-16 in the program; the footprints of the *)
(* model have sizes for which no two edges that the program compares ever  *)
(* coincide (see Catalogue), so that this error decides no comparison and  *)
(* exact arithmetic gives the results of the program.  An optional value   *)
(* (None or a value) is the sequence <<>> or <<value>>.  float("inf") is   *)
(* Inf.                                                                    *)
(***************************************************************************)
EXTENDS Integers, Sequences, FiniteSets, TLC

VARIABLES
    footprints,                \* board.footprints: Seq of Footprint records
    board_outline,             \* <<>> or <<BoundingBox>>
    margin,                    \* argument of component_placement_generator (scaled)
    placed_components,         \* set of footprint indices (uuid identity)
    footprints_not_placed_yet, \* set of footprint indices
    placement_status,          \* [status, issues]
    pc,                        \* position of the constructor / generator
    placement_batch,           \* members of the batch not iterated yet
    placement_candidate,       \* footprint index of the current candidate, 0 if none
    other_order,               \* iteration order of placed_components during a sweep
    search_center,             \* Vector2D
    radius,                    \* current ring (not scaled)
    point_index,               \* 1-based index into points_on_circle of the ring
    rotation_index,            \* 1-based index into rotation_settings
    best_position,             \* <<>> or <<Vector2DWithRotation>>
    best_distance,             \* scaled length, Inf when none
    last_call,                 \* arguments of the last direct call of a method
    rats_nest,                 \* <<>> or <<result of get_rats_nest>> (self.full_rats_nest)
    snapshot,                  \* the caller's copy of the board as it was handed over
    first_run,                 \* <<>> or <<outcome of the caller's first run on the snapshot>>
    debug_level,               \* argument of component_placement_generator
    yields,                    \* number of values the generator has yielded
    skip_nets,                 \* nets_to_skip of a direct get_rats_nest call
    receiver,                  \* the object a geometry primitive is called on
    returned,                  \* <<>> (None) or <<value>> returned by the last direct call
    tested,                    \* per footprint, the length of the list of tested poses of its sweep
    intermediate_state,        \* self.intermediate_state: <<>> (the empty default) or <<IntermediateState>>
    kept                       \* <<>> or <<the first IntermediateState the consumer received>>

vars == <<footprints, board_outline, margin, placed_components,
          footprints_not_placed_yet, placement_status, pc, placement_batch,
          placement_candidate, other_order, search_center, radius, point_index,
          rotation_index, best_position, best_distance, last_call, rats_nest,
          snapshot, first_run, debug_level, yields, skip_nets, receiver, returned,
          tested, intermediate_state, kept>>

(***************************************************************************)
(* Bounds of the model and constants of the program.                       *)
(***************************************************************************)
MaxFootprints == 3     \* a board holds 1..MaxFootprints footprints
MaxMargin == 1         \* margin ranges over 0..MaxMargin
OutlineSide == 4       \* side of the square board outlines
MaxGrid == 2           \* footprint coordinates 0..MaxGrid of the ratsnest inputs
max_radius == 1000
dx == 1
StagingCoordinate == 100

RECURSIVE Factorial(_)
Factorial(n) == IF n <= 1 THEN 1 ELSE n * Factorial(n - 1)

\* A search centre is the mean of at most one pad position per placed
\* footprint (no two footprints of the catalogue share more than one net), so
\* the k-th committed footprint lies on the grid of 1/(k-1)!; pad sizes are
\* multiples of 1/16 and pad boxes need their halves.
Unit == 32 * Factorial(MaxFootprints - 1)
Sixteenth == Unit \div 16
U(n) == n * Unit
Inf == U(1000000)       \* larger than every length of the model

Abs(n) == IF n < 0 THEN -n ELSE n
Min(a, b) == IF a <= b THEN a ELSE b
Max(a, b) == IF a <= b THEN b ELSE a

RECURSIVE Sum(_)
Sum(s) == IF s = <<>> THEN 0 ELSE Head(s) + Sum(Tail(s))

RECURSIVE Flatten(_)
Flatten(ss) == IF ss = <<>> THEN <<>> ELSE Head(ss) \o Flatten(Tail(ss))

Range(s) == {s[i] : i \in DOMAIN s}
Perms(S) == {p \in [1..Cardinality(S) -> S] : Range(p) = S}

RECURSIVE SetToSeq(_)
SetToSeq(S) == IF S = {} THEN <<>>
               ELSE (LET Rest(e) == <<e>> \o SetToSeq(S \ {e}) IN Rest(CHOOSE e \in S : TRUE))

(***************************************************************************)
(* datatypes/common.py: Vector2D, Vector2DWithRotation, BoundingBox.       *)
(***************************************************************************)
Vector2D(x, y) == [x |-> x, y |-> y]
Vector2DWithRotation(x, y, rot) == [x |-> x, y |-> y, rot |-> rot]
BoundingBox(x, y, width, height) == [x |-> x, y |-> y, width |-> width, height |-> height]

\* With s, c the sine and cosine of -angle, (x, y) -> (x*c - y*s, x*s + y*c)
\* is (x, y) -> (y, -x) once per quarter turn of angle.
RECURSIVE QuarterTurn(_, _, _)
QuarterTurn(x, y, k) == IF k = 0 THEN <<x, y>> ELSE QuarterTurn(y, -x, k - 1)

\* Vector2D.rotate: the point the receiver holds after the call.
Rotated(t, rotation_center) == Vector2D(t[1] + rotation_center.x, t[2] + rotation_center.y)
Vector2D_rotate(self, rotation_center, angle) ==
    Rotated(QuarterTurn(self.x - rotation_center.x, self.y - rotation_center.y,
                        (angle % 360) \div 90),
            rotation_center)

center(self) == Vector2D(self.x + self.width \div 2, self.y + self.height \div 2)

translate(self, x, y) == BoundingBox(self.x + x, self.y + y, self.width, self.height)

\* Lines 180-193 of BoundingBox.rotate: the box enclosing the rotated corners.
EnclosingBox(a, b, c, d) ==
    BoundingBox(Min(Min(a.x, b.x), Min(c.x, d.x)),
                Min(Min(a.y, b.y), Min(c.y, d.y)),
                Max(Max(a.x, b.x), Max(c.x, d.x)) - Min(Min(a.x, b.x), Min(c.x, d.x)),
                Max(Max(a.y, b.y), Max(c.y, d.y)) - Min(Min(a.y, b.y), Min(c.y, d.y)))

\* BoundingBox.rotate with an explicit rotation point.
BoundingBox_rotate(self, rotation, rotation_point) ==
    EnclosingBox(
        Vector2D_rotate(Vector2D(self.x, self.y), rotation_point, rotation),
        Vector2D_rotate(Vector2D(self.x + self.width, self.y), rotation_point, rotation),
        Vector2D_rotate(Vector2D(self.x, self.y + self.height), rotation_point, rotation),
        Vector2D_rotate(Vector2D(self.x + self.width, self.y + self.height), rotation_point, rotation))

\* BoundingBox.rotate without a rotation point: about the box's own centre.
BoundingBox_rotate_about_center(self, rotation) == BoundingBox_rotate(self, rotation, center(self))

\* Lines 202-207 of BoundingBox.overlaps, bbox being the receiver inflated by the margin.
Unseparated(bbox, other, m) ==
    ~ (   bbox.x + bbox.width <= other.x - m
       \/ bbox.x >= other.x + other.width + m
       \/ bbox.y + bbox.height <= other.y - m
       \/ bbox.y >= other.y + other.height + m)

overlaps(self, other, m) ==
    Unseparated(BoundingBox(self.x - m, self.y - m, self.width + m * 2, self.height + m * 2),
                other, m)

contains(self, other) ==
    /\ self.x <= other.x
    /\ self.y <= other.y
    /\ self.x + self.width >= other.x + other.width
    /\ self.y + self.height >= other.y + other.height

\* BoundingBox.__add__
BoundingBox_add(self, other) ==
    BoundingBox(Min(self.x, other.x),
                Min(self.y, other.y),
                Max(self.x + self.width, other.x + other.width) - Min(self.x, other.x),
                Max(self.y + self.height, other.y + other.height) - Min(self.y, other.y))

\* sum(boxes) of a non-empty list: __radd__(0) returns the first box.
RECURSIVE BoundingBox_sum(_, _)
BoundingBox_sum(boxes, n) ==
    IF n = 1 THEN boxes[1] ELSE BoundingBox_add(BoundingBox_sum(boxes, n - 1), boxes[n])

normalize_angle(angle) == IF angle >= 0 THEN angle % 360 ELSE (angle % 360) + 360

(***************************************************************************)
(* datatypes/pcb.py: Pad and Footprint.  A footprint of the model has pads *)
(* and no graphic items.                                                   *)
(***************************************************************************)
Pad_compute_bounding_box(pad) ==
    BoundingBox_rotate(BoundingBox(pad.at.x - pad.size.x \div 2, pad.at.y - pad.size.y \div 2,
                                   pad.size.x, pad.size.y),
                       pad.at.rot, pad.at)

\* Lines 1231-1233: the box of one pad in the frame of the board.
PadBoxOnBoard(at, pad) ==
    BoundingBox_rotate(
        BoundingBox_rotate_about_center(translate(Pad_compute_bounding_box(pad), at.x, at.y), -at.rot),
        at.rot, at)

AllPadBoxes(at, pads, n) == [i \in 1..n |-> PadBoxOnBoard(at, pads[i])]

Footprint_compute_bounding_box(at, pads) ==
    BoundingBox_sum(AllPadBoxes(at, pads, Len(pads)), Len(pads))

\* Lines 1251-1252 of set_position: the pads follow the rotation of the footprint.
TurnPads(pads, delta_rot) ==
    [i \in 1..Len(pads) |-> [pads[i] EXCEPT !.at.rot = normalize_angle(@ + delta_rot)]]

Repositioned(fp, position, pads) ==
    [fp EXCEPT !.at = position,
               !.pads = pads,
               !.bounding_box = Footprint_compute_bounding_box(position, pads)]

\* Footprint.set_position: the footprint after the call.
set_position(fp, position) ==
    Repositioned(fp, position, TurnPads(fp.pads, position.rot - fp.at.rot))

\* Pad(...) and Footprint(...) as read from a board file (__post_init__);
\* coordinates are given in program units, pad sizes in sixteenths of them.
Pad(x, y, rot, w, h, net) ==
    [at |-> Vector2DWithRotation(U(x), U(y), rot),
     size |-> Vector2D(w * Sixteenth, h * Sixteenth), net |-> net]

Footprint(name, locked, x, y, rot, pads) ==
    [name |-> name, locked |-> locked, placed |-> FALSE,
     at |-> Vector2DWithRotation(U(x), U(y), rot), pads |-> pads,
     bounding_box |-> Footprint_compute_bounding_box(Vector2DWithRotation(U(x), U(y), rot), pads)]

\* Lines 1293-1299 of get_directly_connected_footprints: the nets that connect.
footprint_nets(fp) ==
    {fp.pads[i].net[1] : i \in {j \in 1..Len(fp.pads) :
        fp.pads[j].net # <<>> /\ fp.pads[j].net[1] \notin {"", "GND"}}}

\* get_directly_connected_footprints asking for the same nets instead of a
\* shared net (a defect variant).
get_directly_connected_footprints_with_same_nets(self, fps) ==
    {other \in 1..Len(fps) : other # self /\ footprint_nets(fps[other]) = footprint_nets(fps[self])}

\* Footprint.get_directly_connected_footprints over board.footprints `fps`.
get_directly_connected_footprints(self, fps) ==
    {other \in 1..Len(fps) :
        other # self /\ footprint_nets(fps[other]) \cap footprint_nets(fps[self]) # {}}

\* Board.locked_components
locked_components(fps) == {i \in 1..Len(fps) : fps[i].locked}

(***************************************************************************)
(* layout/autoplacement.py: status tracking.                               *)
(***************************************************************************)
PlacementIssue(type, message) == [type |-> type, message |-> message]

\* log_issue without the duplicate check of lines 70-72 (a defect variant).
log_issue_without_duplicate_check(self, issue_type, message) ==
    [status |-> IF issue_type = "error" THEN "failed" ELSE self.status,
     issues |-> Append(self.issues, PlacementIssue(issue_type, message))]

\* PlacementStatus.log_issue: the status object after the call.
log_issue(self, issue_type, message) ==
    IF \E i \in 1..Len(self.issues) : self.issues[i] = PlacementIssue(issue_type, message)
    THEN self
    ELSE [status |-> IF issue_type = "error" THEN "failed" ELSE self.status,
          issues |-> Append(self.issues, PlacementIssue(issue_type, message))]

(***************************************************************************)
(* layout/autoplacement.py: net list and ratsnest helpers.                 *)
(***************************************************************************)
Line(x1, x2, y1, y2) == [x1 |-> x1, x2 |-> x2, y1 |-> y1, y2 |-> y2]

manhattan_distance(line) == Abs(line.x1 - line.x2) + Abs(line.y1 - line.y2)

line_from_two_points(point_a, point_b) == Line(point_a.x, point_b.x, point_a.y, point_b.y)

\* Line 393 of get_global_position, t being the pad offset after the swaps.
Offset(t, footprint) == Vector2D(t[1] + footprint.at.x, t[2] + footprint.at.y)

\* get_global_position for a footprint rotation that is a multiple of 90:
\* number_of_rotations swaps (x, y) -> (y, -x), then the translation.
get_global_position(pad, footprint) ==
    Offset(QuarterTurn(pad.at.x, pad.at.y, normalize_angle(footprint.at.rot) \div 90), footprint)

PadsOnNet(fp, name) == SelectSeq(fp.pads, LAMBDA p : p.net # <<>> /\ p.net[1] = name)

GlobalPositions(pads, fp) == [j \in 1..Len(pads) |-> get_global_position(pads[j], fp)]

\* Pads of the footprints `order` (indices into fps, in iteration order) that
\* are on the net `name`, as global positions in iteration order.
SameNetPositions(fps, order, name) ==
    Flatten([k \in 1..Len(order) |-> GlobalPositions(PadsOnNet(fps[order[k]], name), fps[order[k]])])

\* Lines 357-368 of get_connections_to_closest_other_footprints for one pad:
\* a line is appended each time a strictly closer pad is met.
RECURSIVE CloserLines(_, _, _, _)
CloserLines(positions, i, current_pad_position, best_distance_to_other_pad) ==
    IF i > Len(positions) THEN <<>>
    ELSE IF manhattan_distance(line_from_two_points(positions[i], current_pad_position))
              < best_distance_to_other_pad
         THEN <<line_from_two_points(positions[i], current_pad_position)>>
              \o CloserLines(positions, i + 1, current_pad_position,
                     manhattan_distance(line_from_two_points(positions[i], current_pad_position)))
         ELSE CloserLines(positions, i + 1, current_pad_position, best_distance_to_other_pad)

PadLines(fps, footprint, order, pad) ==
    IF pad.net = <<>> THEN <<>>
    ELSE CloserLines(SameNetPositions(fps, order, pad.net[1]), 1,
                     get_global_position(pad, footprint), Inf)

\* get_connections_to_closest_other_footprints: a function from the net names
\* that received a line to their lists of lines.  `order` is the order in which
\* the set other_footprints is iterated.
get_connections_to_closest_other_footprints(fps, footprint, order) ==
    [name \in {footprint.pads[i].net[1] : i \in {j \in 1..Len(footprint.pads) :
                    PadLines(fps, footprint, order, footprint.pads[j]) # <<>>}} |->
        Flatten([i \in 1..Len(footprint.pads) |->
            IF footprint.pads[i].net # <<>> /\ footprint.pads[i].net[1] = name
            THEN PadLines(fps, footprint, order, footprint.pads[i]) ELSE <<>>])]

LinesLength(lines) == Sum([i \in 1..Len(lines) |-> manhattan_distance(lines[i])])

\* Lines 230-233 and 247-250: the summed Manhattan length without the GND net.
RECURSIVE TotalDistance(_, _)
TotalDistance(current_footprint_ratsnest, names) ==
    IF names = {} THEN 0
    ELSE LinesLength(current_footprint_ratsnest[CHOOSE n \in names : TRUE])
         + TotalDistance(current_footprint_ratsnest, names \ {CHOOSE n \in names : TRUE})

RatsNestDistance(current_footprint_ratsnest) ==
    TotalDistance(current_footprint_ratsnest, (DOMAIN current_footprint_ratsnest) \ {"GND"})

check_global_footprint_overlap(fps, footprint, comparison_footprints, m) ==
    \E comparison \in comparison_footprints :
        overlaps(footprint.bounding_box, fps[comparison].bounding_box, m)

\* range(0, n, step) has this many elements.
RangeLen(n, step) == IF n <= 0 THEN 0 ELSE (n + step - 1) \div step

\* points_on_circle from its first point (x0, y0): n steps down, left and up, n4 steps right.
CirclePoints(x0, y0, n, n4, step) ==
    <<Vector2D(x0, y0)>>
    \o [i \in 1..n |-> Vector2D(x0 - U(i * step), y0)]
    \o [i \in 1..n |-> Vector2D(x0 - U(n * step), y0 + U(i * step))]
    \o [i \in 1..n |-> Vector2D(x0 - U(n * step) + U(i * step), y0 + U(n * step))]
    \o [i \in 1..n4 |-> Vector2D(x0, y0 + U(n * step) - U(i * step))]

\* points_on_circle with the last loop over range(0, 2 * radius, dx): the
\* first point is yielded again at the end (a defect variant).
points_on_circle_with_closing_point(c, r, step) ==
    CirclePoints(c.x + U(r), c.y - U(r), RangeLen(2 * r, step), RangeLen(2 * r, step), step)

\* points_on_circle(center, radius, dx): the points in the order they are yielded.
points_on_circle(c, r, step) ==
    CirclePoints(c.x + U(r), c.y - U(r), RangeLen(2 * r, step), RangeLen(2 * r - step, step), step)

rotation_settings == <<0, 90, 180, 270>>

\* Lines 286-298 of get_search_center: the positions of the pads of placed
\* footprints on the nets of the candidate `footprint` (an index).
other_pad_positions(fps, footprint, placed) ==
    Flatten([i \in 1..Len(fps[footprint].pads) |->
        IF fps[footprint].pads[i].net = <<>> THEN <<>>
        ELSE SameNetPositions(fps, SetToSeq(placed \ {footprint}), fps[footprint].pads[i].net[1])])

mean(something) == Sum(something) \div Len(something)

\* Lines 299-304 of get_search_center.
MeanPosition(positions) ==
    IF Len(positions) = 0 THEN Vector2D(0, 0)
    ELSE Vector2D(mean([i \in 1..Len(positions) |-> positions[i].x]),
                  mean([i \in 1..Len(positions) |-> positions[i].y]))

get_search_center(fps, footprint, placed) == MeanPosition(other_pad_positions(fps, footprint, placed))

\* The mean is a whole number of 1/Unit.
MeanIsExact(positions) ==
    \/ Len(positions) = 0
    \/ /\ Sum([i \in 1..Len(positions) |-> positions[i].x]) % Len(positions) = 0
       /\ Sum([i \in 1..Len(positions) |-> positions[i].y]) % Len(positions) = 0

\* Line 471-472 of get_the_most_connected_footprint.
nets_this_footprint_is_connected_to(fp) ==
    {fp.pads[i].net[1] : i \in {j \in 1..Len(fp.pads) : fp.pads[j].net # <<>>}} \ {"GND"}

\* get_the_most_connected_footprint without the comparison of line 474 (a
\* defect variant): any footprint of the waitlist.
get_the_most_connected_footprint_without_count(fps, waitlist) ==
    waitlist

\* The footprints get_the_most_connected_footprint can return for the set
\* `waitlist`, whose iteration order is not fixed: the first footprint in
\* iteration order with the greatest number of nets, any footprint if none has a net.
get_the_most_connected_footprint(fps, waitlist) ==
    IF \A f \in waitlist : Cardinality(nets_this_footprint_is_connected_to(fps[f])) = 0
    THEN waitlist
    ELSE {f \in waitlist : \A g \in waitlist :
            Cardinality(nets_this_footprint_is_connected_to(fps[g]))
                <= Cardinality(nets_this_footprint_is_connected_to(fps[f]))}

\* get_net_list: net name -> positions of its pads, in the order of the footprints and pads.
NetNames(fps) ==
    UNION {{fps[f].pads[i].net[1] : i \in {j \in 1..Len(fps[f].pads) : fps[f].pads[j].net # <<>>}} :
           f \in 1..Len(fps)}

\* Lines 328-335: get_net_list raises at the first pad with a net whose
\* footprint is not at a multiple of 90 degrees.
get_net_list_raises(fps) ==
    \E f \in 1..Len(fps) :
        /\ \E i \in 1..Len(fps[f].pads) : fps[f].pads[i].net # <<>>
        /\ normalize_angle(fps[f].at.rot) % 90 # 0

\* The net list get_net_list returns when it does not raise.
get_net_list(fps) ==
    [name \in NetNames(fps) |-> SameNetPositions(fps, [k \in 1..Len(fps) |-> k], name)]

\* Twice the signed area of the triangle a, b, c.
Orientation(a, b, c) == (b.x - a.x) * (c.y - a.y) - (b.y - a.y) * (c.x - a.x)

Sign(n) == IF n > 0 THEN 1 ELSE IF n < 0 THEN -1 ELSE 0

\* The determinant whose sign tells on which side of the circle through a, b
\* and c the point d lies; 0 when the four points lie on one circle.
InCircleDeterminant(a, b, c, d) ==
      ((a.x - d.x) * (a.x - d.x) + (a.y - d.y) * (a.y - d.y))
         * ((b.x - d.x) * (c.y - d.y) - (c.x - d.x) * (b.y - d.y))
    - ((b.x - d.x) * (b.x - d.x) + (b.y - d.y) * (b.y - d.y))
         * ((a.x - d.x) * (c.y - d.y) - (c.x - d.x) * (a.y - d.y))
    + ((c.x - d.x) * (c.x - d.x) + (c.y - d.y) * (c.y - d.y))
         * ((a.x - d.x) * (b.y - d.y) - (b.x - d.x) * (a.y - d.y))

\* Whether d lies strictly inside the circle through a, b, c.
InCircle(a, b, c, d) ==
    Sign(InCircleDeterminant(a, b, c, d)) * Sign(Orientation(a, b, c)) > 0

\* The Delaunay triangulation collaborator, for points in general position:
\* the triangles whose circumcircle holds no other point.
delaunay(vertices) ==
    SetToSeq({[vertices |-> <<vertices[t[1]], vertices[t[2]], vertices[t[3]]>>] :
              t \in {u \in (1..Len(vertices)) \X (1..Len(vertices)) \X (1..Len(vertices)) :
                        /\ u[1] < u[2] /\ u[2] < u[3]
                        /\ Orientation(vertices[u[1]], vertices[u[2]], vertices[u[3]]) # 0
                        /\ \A l \in 1..Len(vertices) :
                              ~ InCircle(vertices[u[1]], vertices[u[2]], vertices[u[3]], vertices[l])}})

\* Lines 453-460: the lines of one triangle.  The three edges are held in
\* a Python set and appended in the order in which the set is iterated,
\* which follows the hash values of the coordinates: every order of the
\* three lines is a list the loop of lines 459-460 can append.
TriangleEdges(v) ==
    Perms({ Line(v[1].x, v[2].x, v[1].y, v[2].y),
            Line(v[2].x, v[3].x, v[2].y, v[3].y),
            Line(v[3].x, v[1].x, v[3].y, v[1].y) })

\* Lines 451-462: the lines of all triangles, triangle after triangle: the
\* lists edge_coordinates can be.
RECURSIVE edge_coordinates(_)
edge_coordinates(triangles) ==
    IF triangles = <<>>
    THEN {<<>>}
    ELSE {first \o rest : first \in TriangleEdges(Head(triangles).vertices),
                          rest \in edge_coordinates(Tail(triangles))}

\* Lines 438-462 of get_rats_nest for the vertices of one net with at least
\* 2 vertices: the lists of lines the net can get.
NetLines(vertices) ==
    IF Len(vertices) = 2
    THEN {<<Line(vertices[1].x, vertices[2].x, vertices[1].y, vertices[2].y)>>}
    ELSE IF Len(vertices) = 3
    THEN {<<Line(vertices[1].x, vertices[2].x, vertices[1].y, vertices[2].y),
            Line(vertices[2].x, vertices[3].x, vertices[2].y, vertices[3].y),
            Line(vertices[3].x, vertices[1].x, vertices[3].y, vertices[2].y)>>}
    ELSE edge_coordinates(delaunay(vertices))

\* Lines 428-464: the ratsnests with the nets `names`, each net with one of
\* the lists of lines it can get.
RatsNests(names, net_list) ==
    {nest \in [names -> UNION {NetLines(net_list[n]) : n \in names}] :
        \A n \in names : nest[n] \in NetLines(net_list[n])}

\* get_rats_nest without the test of lines 433-435 (a defect variant).
get_rats_nest_without_skip(fps, nets_to_skip) ==
    RatsNests({n \in NetNames(fps) : Len(get_net_list(fps)[n]) >= 2}, get_net_list(fps))

\* get_rats_nest(footprints, nets_to_skip): the results the call can
\* return, each a mapping net name -> list of lines.
get_rats_nest(fps, nets_to_skip) ==
    RatsNests({n \in NetNames(fps) \ nets_to_skip : Len(get_net_list(fps)[n]) >= 2},
              get_net_list(fps))

(***************************************************************************)
(* The boards, outlines and margins the autoplacer is run on.              *)
(***************************************************************************)
MountingHolePrefix == <<"M", "o", "u", "n", "t", "i", "n", "g", "H", "o", "l", "e">>

\* str.startswith on names held as sequences of characters.
startswith(name, prefix) ==
    Len(name) >= Len(prefix) /\ SubSeq(name, 1, Len(prefix)) = prefix

\* Footprints as read from a board file: two parts on the nets A and B, one of
\* them on GND, a part on B, a mounting hole without a net and three locked
\* parts of which L2 and L3 overlap L1.  The k-th footprint has pad sizes of a
\* whole number plus k/16, so its edges lie k/32 off the grid of the positions:
\* edges of two footprints, or of a footprint and an outline, never coincide.
Catalogue ==
    << Footprint(<<"U", "1">>, FALSE, 5, 5, 0,
                 <<Pad(-1, 0, 0, 1, 17, <<"A">>), Pad(1, 0, 0, 1, 17, <<"B">>)>>),
       Footprint(<<"R", "1">>, FALSE, 7, 5, 90,
                 <<Pad(-1, 0, 90, 2, 18, <<"A">>), Pad(1, 0, 90, 2, 18, <<"GND">>)>>),
       Footprint(<<"C", "1">>, FALSE, 3, 3, 0, <<Pad(0, 0, 0, 35, 19, <<"B">>)>>),
       Footprint(MountingHolePrefix \o <<"_", "3">>, FALSE, 9, 9, 0, <<Pad(0, 0, 0, 36, 36, <<>>)>>),
       Footprint(<<"L", "1">>, TRUE, 0, 0, 0, <<Pad(0, 0, 0, 37, 37, <<"A">>)>>),
       Footprint(<<"L", "2">>, TRUE, 1, 1, 90, <<Pad(0, 0, 90, 38, 38, <<"B">>)>>),
       Footprint(<<"L", "3">>, TRUE, -1, 0, 180, <<Pad(0, 0, 180, 23, 23, <<"C">>)>>) >>

\* Strictly increasing index sequences into the catalogue.
Picks ==
    {p \in UNION {[1..n -> 1..Len(Catalogue)] : n \in 1..MaxFootprints} :
        \A i \in 1..(Len(p) - 1) : p[i] < p[i + 1]}

Boards == {[i \in 1..Len(p) |-> Catalogue[p[i]]] : p \in Picks}

Outlines ==
    { <<>>,
      <<BoundingBox(U(-(OutlineSide \div 2)), U(-(OutlineSide \div 2)), U(OutlineSide), U(OutlineSide))>>,
      <<BoundingBox(U(1), U(1), U(OutlineSide), U(OutlineSide))>> }

NoVector == Vector2D(0, 0)

\* The board as handed to ComponentAutoplacer(board, board_outline).
Init ==
    /\ footprints \in Boards
    /\ board_outline \in Outlines
    /\ margin \in {U(m) : m \in 0..MaxMargin}
    /\ placed_components = {}
    /\ footprints_not_placed_yet = {}
    /\ placement_status = [status |-> "initialized", issues |-> <<>>]
    /\ pc = "new"
    /\ placement_batch = {}
    /\ placement_candidate = 0
    /\ other_order = <<>>
    /\ search_center = NoVector
    /\ radius = 0
    /\ point_index = 1
    /\ rotation_index = 1
    /\ best_position = <<>>
    /\ best_distance = Inf
    /\ last_call = <<>>
    /\ rats_nest = <<>>
    /\ snapshot = footprints
    /\ first_run = <<>>
    /\ debug_level = 0
    /\ yields = 0
    /\ skip_nets = {"GND"}
    /\ receiver = <<>>
    /\ returned = <<>>
    /\ tested = [i \in DOMAIN footprints |-> 0]
    /\ intermediate_state = <<>>
    /\ kept = <<>>

sweep_vars == <<placement_candidate, other_order, search_center, radius, point_index,
                rotation_index, best_position, best_distance>>
caller_vars == <<board_outline, margin, snapshot, first_run, debug_level, skip_nets>>
geometry_vars == <<receiver, returned>>
render_vars == <<tested, intermediate_state, kept>>

(***************************************************************************)
(* ComponentAutoplacer.__init__                                            *)
(***************************************************************************)
StagingPose == Vector2DWithRotation(U(StagingCoordinate), U(StagingCoordinate), 0)

\* Lines 111-113 with the lock test dropped (a defect variant).
move_all_footprints_far_away_ignoring_lock(fps) ==
    [i \in 1..Len(fps) |-> set_position(fps[i], StagingPose)]

\* Lines 111-113: move all footprints far away.
move_all_footprints_far_away(fps) ==
    [i \in 1..Len(fps) |-> IF ~ fps[i].locked THEN set_position(fps[i], StagingPose) ELSE fps[i]]

\* Lines 128-131 for one locked component.
outline_check(fps, outline, component, status) ==
    IF outline # <<>> /\ ~ contains(outline[1], fps[component].bounding_box)
    THEN log_issue(status, "error", "Some locked components are positioned outside of selected outline.")
    ELSE status

\* Lines 132-137 for one locked component.
overlap_check(fps, component, status) ==
    IF check_global_footprint_overlap(fps, fps[component], locked_components(fps) \ {component}, 0)
    THEN log_issue(status, "warning", "Two or more locked components overlap each other.")
    ELSE status

\* The checks of _prepare_placement_waitlist for the locked components in
\* iteration order `order`, from index k on.
RECURSIVE prepare_status(_, _, _, _, _)
prepare_status(fps, outline, order, k, status) ==
    IF k > Len(order) THEN status
    ELSE prepare_status(fps, outline, order, k + 1,
             overlap_check(fps, order[k], outline_check(fps, outline, order[k], status)))

\* Lines 123-126: the locked components count as placed.
mark_locked_placed(fps) ==
    [i \in 1..Len(fps) |-> IF fps[i].locked THEN [fps[i] EXCEPT !.placed = TRUE] ELSE fps[i]]

\* The constructor without the discard of line 126 (a defect variant).
ConstructedWithoutDiscard(moved) ==
    /\ footprints' = mark_locked_placed(moved)
    /\ placed_components' = locked_components(moved)
    /\ footprints_not_placed_yet' = 1..Len(moved)
    /\ \E order \in Perms(locked_components(moved)) :
          placement_status' = prepare_status(moved, board_outline, order, 1, placement_status)
    /\ \E nest \in get_rats_nest(moved, {"GND"}) : rats_nest' = <<nest>>

\* Lines 105-118: the state after construction, the footprints moved away.
Constructed(moved) ==
    /\ footprints' = mark_locked_placed(moved)
    /\ placed_components' = locked_components(moved)
    /\ footprints_not_placed_yet' = (1..Len(moved)) \ locked_components(moved)
    /\ \E order \in Perms(locked_components(moved)) :
          placement_status' = prepare_status(moved, board_outline, order, 1, placement_status)
    /\ \E nest \in get_rats_nest(moved, {"GND"}) : rats_nest' = <<nest>>

Construct ==
    /\ pc = "new"
    /\ Constructed(move_all_footprints_far_away(footprints))
    /\ pc' = "start"
    /\ UNCHANGED <<placement_batch, sweep_vars, last_call, caller_vars, geometry_vars, render_vars, yields>>

(***************************************************************************)
(* ComponentAutoplacer.component_placement_generator                       *)
(***************************************************************************)
\* place_footprint without line 143 (a defect variant).
place_footprint_without_placed_flag(fps, footprint, position) ==
    [fps EXCEPT ![footprint] = set_position(@, position)]

\* place_footprint: the footprint list after the call.
place_footprint(fps, footprint, position) ==
    [fps EXCEPT ![footprint] = [set_position(@, position) EXCEPT !.placed = TRUE]]

\* Lines 153-156: the anchor, when no footprint is locked.
Start ==
    /\ pc = "start"
    /\ IF Cardinality(placed_components) = 0
       THEN \E first_footprint \in get_the_most_connected_footprint(footprints, footprints_not_placed_yet) :
              /\ footprints' = place_footprint(footprints, first_footprint, Vector2DWithRotation(0, 0, 0))
              /\ placed_components' = placed_components \cup {first_footprint}
              /\ footprints_not_placed_yet' = footprints_not_placed_yet \ {first_footprint}
       ELSE UNCHANGED <<footprints, placed_components, footprints_not_placed_yet>>
    /\ pc' = "loop"
    /\ UNCHANGED <<placement_status, placement_batch, sweep_vars, last_call, rats_nest, caller_vars, geometry_vars, render_vars, yields>>

\* Lines 161-169 without the subtraction of line 167 (a defect variant).
connected_batch_with_placed(fps, placed) ==
    UNION {get_directly_connected_footprints(footprint, fps) : footprint \in placed}

\* Lines 161-169: the footprints connected to already placed ones.
connected_batch(fps, placed) ==
    UNION {get_directly_connected_footprints(footprint, fps) \ placed : footprint \in placed}

\* Lines 171-184 without the test of the name of line 176 (a defect variant).
PopIsolatedWithoutNameTest(running, waitlist) ==
    \E next_footprint \in waitlist :
        /\ footprints_not_placed_yet' = waitlist \ {next_footprint}
        /\ placement_status' =
              log_issue(running, "warning", "The circuit has electrically isolated components.")
        /\ placement_batch' = {next_footprint}

\* Lines 171-184 when the batch is empty: one footprint is popped from the waitlist.
PopIsolated(running, waitlist) ==
    \E next_footprint \in waitlist :
        /\ footprints_not_placed_yet' = waitlist \ {next_footprint}
        /\ placement_status' =
              IF ~ startswith(footprints[next_footprint].name, MountingHolePrefix)
              THEN log_issue(running, "warning", "The circuit has electrically isolated components.")
              ELSE running
        /\ placement_batch' = {next_footprint}

\* Lines 161-184 with the batch put back on the waitlist and dropped (a defect variant).
LoopBodyWithoutBatch(running, batch, waitlist) ==
    /\ footprints_not_placed_yet' = waitlist \cup batch
    /\ placement_status' = running
    /\ placement_batch' = {}

\* Lines 161-184 with the batch computed: an empty batch leaves the waitlist
\* as it was at the head of the loop, so the pop finds a footprint.
LoopBody(running, batch, waitlist) ==
    IF batch = {}
    THEN PopIsolated(running, waitlist)
    ELSE /\ footprints_not_placed_yet' = waitlist
         /\ placement_status' = running
         /\ placement_batch' = batch

\* Lines 157-184: one pass through the head of the while loop.
LoopIteration ==
    /\ pc = "loop"
    /\ Cardinality(footprints_not_placed_yet) > 0
    /\ placement_status.status # "failed"
    /\ LoopBody([placement_status EXCEPT !.status = "running"],
                connected_batch(footprints, placed_components),
                footprints_not_placed_yet \ connected_batch(footprints, placed_components))
    /\ pc' = "batch"
    /\ UNCHANGED <<footprints, placed_components, sweep_vars, last_call, rats_nest, caller_vars, geometry_vars, render_vars, yields>>

\* Lines 270-271 without the test of the waitlist (a defect variant).
final_status_without_waitlist_test(status, waitlist) ==
    [status EXCEPT !.status = "success"]

\* Lines 270-271: the status after the loop.
final_status(status, waitlist) ==
    IF Cardinality(waitlist) = 0 /\ status.status # "success"
    THEN [status EXCEPT !.status = "success"]
    ELSE status

\* Lines 157 and 268-273: the loop is left and the generator ends with its last yield.
Finish ==
    /\ pc = "loop"
    /\ ~ (Cardinality(footprints_not_placed_yet) > 0 /\ placement_status.status # "failed")
    /\ placement_status' = final_status(placement_status, footprints_not_placed_yet)
    /\ yields' = yields + 1
    /\ pc' = "done"
    /\ UNCHANGED <<footprints, placed_components, footprints_not_placed_yet, placement_batch,
                   sweep_vars, last_call, rats_nest, caller_vars, geometry_vars, render_vars>>

\* Lines 186-200: the next candidate of the batch, in any order, with a new
\* empty list of tested poses (line 193).
NextCandidate ==
    /\ pc = "batch"
    /\ placement_batch # {}
    /\ \E candidate \in placement_batch :
         IF placed_components \cap footprints_not_placed_yet # {}
         THEN /\ pc' = "raised"
              /\ UNCHANGED <<placement_batch, sweep_vars, tested>>
         ELSE /\ placement_candidate' = candidate
              /\ tested' = [tested EXCEPT ![candidate] = 0]
              /\ placement_batch' = placement_batch \ {candidate}
              /\ best_position' = <<>>
              /\ best_distance' = Inf
              /\ search_center' = get_search_center(footprints, candidate, placed_components)
              /\ other_order' \in Perms(placed_components)
              /\ radius' = 0
              /\ UNCHANGED <<point_index, rotation_index>>
              /\ pc' = "ring"
    /\ UNCHANGED <<footprints, placed_components, footprints_not_placed_yet, placement_status,
                   last_call, rats_nest, caller_vars, geometry_vars, intermediate_state, kept,
                   yields>>

\* Line 186: the batch is exhausted, back to the while condition.
BatchDone ==
    /\ pc = "batch"
    /\ placement_batch = {}
    /\ pc' = "loop"
    /\ UNCHANGED <<footprints, placed_components, footprints_not_placed_yet, placement_status,
                   placement_batch, sweep_vars, last_call, rats_nest, caller_vars, geometry_vars, render_vars, yields>>

\* Lines 201-213: the body of the radius loop is entered with a radius of
\* range(0, max_radius, dx).
EnterRing ==
    /\ pc = "ring"
    /\ IF /\ best_position = <<>>
          /\ board_outline # <<>>
          /\ U(radius) > board_outline[1].width
          /\ U(radius) > board_outline[1].height
       THEN /\ placement_status' = log_issue(placement_status, "error",
                   "Selected board outline is to find a space for this footprint")
            /\ pc' = "commit"
            /\ UNCHANGED <<point_index, rotation_index>>
       ELSE /\ point_index' = 1
            /\ rotation_index' = 1
            /\ pc' = "sweep"
            /\ UNCHANGED placement_status
    /\ UNCHANGED <<footprints, placed_components, footprints_not_placed_yet, placement_batch,
                   placement_candidate, other_order, search_center, radius, best_position,
                   best_distance, last_call, rats_nest, caller_vars, geometry_vars, render_vars, yields>>

\* Number of points points_on_circle yields for a ring.
RingSize(r, step) == 1 + 3 * RangeLen(2 * r, step) + RangeLen(2 * r - step, step)

\* Lines 219-226 and 252: the pose is free of overlap and inside the outline.
Feasible(moved) ==
    /\ ~ check_global_footprint_overlap(moved, moved[placement_candidate], placed_components, margin)
    /\ board_outline = <<>> \/ contains(board_outline[1], moved[placement_candidate].bounding_box)

\* Lines 227-233 and 247-250: the cost of the pose.
PoseDistance(moved) ==
    RatsNestDistance(
        get_connections_to_closest_other_footprints(moved, moved[placement_candidate], other_order))

\* Lines 252-256 and the advance of the three nested loops; `better` is the
\* condition of line 252.  When range(0, max_radius, dx) is exhausted the
\* radius keeps its last value and the loop of line 201 is left.
PoseTested(candidate_position, distance, better) ==
    /\ best_distance' = IF better THEN distance ELSE best_distance
    /\ best_position' = IF better THEN <<candidate_position>> ELSE best_position
    /\ IF rotation_index < Len(rotation_settings)
       THEN /\ rotation_index' = rotation_index + 1
            /\ pc' = "sweep"
            /\ UNCHANGED <<point_index, radius>>
       ELSE IF point_index < RingSize(radius, dx)
       THEN /\ rotation_index' = 1
            /\ point_index' = point_index + 1
            /\ pc' = "sweep"
            /\ UNCHANGED radius
       ELSE IF (IF better THEN distance ELSE best_distance) # Inf
       THEN /\ pc' = "commit"
            /\ UNCHANGED <<rotation_index, point_index, radius>>
       ELSE IF radius + dx < max_radius
       THEN /\ radius' = radius + dx
            /\ pc' = "ring"
            /\ UNCHANGED <<rotation_index, point_index>>
       ELSE /\ pc' = "commit"
            /\ UNCHANGED <<rotation_index, point_index, radius>>

PoseScored(moved, candidate_position, distance) ==
    /\ footprints' = moved
    /\ PoseTested(candidate_position, distance, distance < best_distance /\ Feasible(moved))

PoseMoved(moved, candidate_position) ==
    PoseScored(moved, candidate_position, PoseDistance(moved))

\* Lines 216-218: the candidate is moved to the pose.
PoseAt(candidate_position) ==
    PoseMoved([footprints EXCEPT ![placement_candidate] = set_position(@, candidate_position)],
              candidate_position)

PoseOf(point, rotation) == PoseAt(Vector2DWithRotation(point.x, point.y, rotation))

\* The yield of lines 234-245 given only from debug level 2 on (a defect variant).
yields_after_pose_from_level_two(level, n) ==
    IF level >= 2 THEN n + 1 ELSE n

\* Lines 234-245: the number of yields after a pose, n yields before it.
yields_after_pose(level, n) ==
    IF level >= 1 THEN n + 1 ELSE n

\* Lines 26-31 and 235-243: an IntermediateState.  Its list of tested poses
\* is the list object of the candidate's sweep, held by reference: the field
\* names the candidate whose list it is.  The lists of the other fields are
\* built for this state alone and the full ratsnest is not written after
\* construction.
IntermediateState(box, list, overlap) ==
    [current_footprint_bounding_box |-> box,
     previously_tested_footprint_positions_for_rendering |-> list,
     components_overlap |-> overlap]

\* What the consumer has in hand after a yield: the state, and the number of
\* poses the list of the state held at that moment.
Received(state, lists) ==
    [state |-> state,
     poses |-> lists[state.previously_tested_footprint_positions_for_rendering]]

\* Lines 214-215: the pose the two inner loops are at.
candidate_position ==
    Vector2DWithRotation(points_on_circle(search_center, radius, dx)[point_index].x,
                         points_on_circle(search_center, radius, dx)[point_index].y,
                         rotation_settings[rotation_index])

\* Lines 214-256 at debug_level 0: one (point, rotation) pose is tested;
\* there is no yield (line 234), so the generator goes on to the next pose,
\* the next ring or the end of the sweep without handing over control.
TestPose ==
    /\ pc = "sweep"
    /\ debug_level < 1
    /\ PoseOf(points_on_circle(search_center, radius, dx)[point_index],
              rotation_settings[rotation_index])
    /\ yields' = yields_after_pose(debug_level, yields)
    /\ tested' = [tested EXCEPT ![placement_candidate] = @ + 1]
    /\ UNCHANGED <<placed_components, footprints_not_placed_yet, placement_status, placement_batch,
                   placement_candidate, other_order, search_center, last_call, rats_nest,
                   caller_vars, geometry_vars, intermediate_state, kept>>

\* Lines 218 and 235-244: the candidate is at the pose and the state to
\* yield is assigned to self.intermediate_state.
PoseYielded(moved) ==
    /\ footprints' = moved
    /\ intermediate_state' =
          <<IntermediateState(moved[placement_candidate].bounding_box,
                              placement_candidate, ~ Feasible(moved))>>

\* Lines 214-245 at debug_level >= 1: the pose is appended to the list of
\* tested poses, the candidate is moved to it and the generator is suspended
\* at the yield of line 245, before the pose is scored.  The consumer keeps
\* the first state it receives.
YieldPose ==
    /\ pc = "sweep"
    /\ debug_level >= 1
    /\ PoseYielded([footprints EXCEPT ![placement_candidate] = set_position(@, candidate_position)])
    /\ tested' = [tested EXCEPT ![placement_candidate] = @ + 1]
    /\ kept' = IF kept = <<>>
               THEN <<Received(intermediate_state'[1], tested')>>
               ELSE kept
    /\ yields' = yields_after_pose(debug_level, yields)
    /\ pc' = "yielded"
    /\ UNCHANGED <<placed_components, footprints_not_placed_yet, placement_status, placement_batch,
                   sweep_vars, last_call, rats_nest, caller_vars, geometry_vars>>

\* Lines 247-256 with the cost of the pose computed.
PoseResumed(distance) ==
    PoseTested(candidate_position, distance, distance < best_distance /\ Feasible(footprints))

\* Lines 247-256: the generator is resumed after the yield of line 245; the
\* pose is scored and the loops advance.
ResumePose ==
    /\ pc = "yielded"
    /\ PoseResumed(PoseDistance(footprints))
    /\ UNCHANGED <<footprints, placed_components, footprints_not_placed_yet, placement_status,
                   placement_batch, placement_candidate, other_order, search_center, last_call,
                   rats_nest, caller_vars, geometry_vars, render_vars, yields>>

\* Line 263: the pose used when the sweep found none.
fallback_position(footprint) == footprint.at

\* Lines 260-266: the candidate is committed.
Commit ==
    /\ pc = "commit"
    /\ footprints' = place_footprint(footprints, placement_candidate,
                        IF best_position = <<>>
                        THEN fallback_position(footprints[placement_candidate])
                        ELSE best_position[1])
    /\ placement_status' = IF best_position = <<>>
                           THEN log_issue(placement_status, "error", "Could not place a component")
                           ELSE placement_status
    /\ placed_components' = placed_components \cup {placement_candidate}
    /\ footprints_not_placed_yet' = footprints_not_placed_yet \ {placement_candidate}
    /\ best_position' = IF best_position = <<>>
                        THEN <<fallback_position(footprints[placement_candidate])>>
                        ELSE best_position
    /\ pc' = "batch"
    /\ UNCHANGED <<placement_batch, placement_candidate, other_order, search_center, radius,
                   point_index, rotation_index, best_distance, last_call, rats_nest, caller_vars,
                   geometry_vars, render_vars, yields>>

\* The generator at debug_level 0, the level place_all_components drains it
\* with: no pose is yielded.
Next ==
    \/ Construct
    \/ Start
    \/ LoopIteration
    \/ Finish
    \/ NextCandidate
    \/ BatchDone
    \/ EnterRing
    \/ TestPose
    \/ Commit

Spec == Init /\ [][Next]_vars

\* The generator at any debug level.
NextDebug ==
    \/ Next
    \/ YieldPose
    \/ ResumePose

(***************************************************************************)
(* The caller drains component_placement_generator(margin, debug_level)    *)
(* itself, with a debug level of its choice, on boards of at most          *)
(* MaxDebugFootprints footprints.                                          *)
(***************************************************************************)
MaxDebugFootprints == 2

DebugLevels == {0, 1, 4}

InitDebug ==
    /\ footprints \in {b \in Boards : Len(b) <= MaxDebugFootprints}
    /\ board_outline \in Outlines
    /\ margin = 0
    /\ placed_components = {}
    /\ footprints_not_placed_yet = {}
    /\ placement_status = [status |-> "initialized", issues |-> <<>>]
    /\ pc = "new"
    /\ placement_batch = {}
    /\ placement_candidate = 0
    /\ other_order = <<>>
    /\ search_center = NoVector
    /\ radius = 0
    /\ point_index = 1
    /\ rotation_index = 1
    /\ best_position = <<>>
    /\ best_distance = Inf
    /\ last_call = <<>>
    /\ rats_nest = <<>>
    /\ snapshot = footprints
    /\ first_run = <<>>
    /\ debug_level \in DebugLevels
    /\ yields = 0
    /\ skip_nets = {"GND"}
    /\ receiver = <<>>
    /\ returned = <<>>
    /\ tested = [i \in DOMAIN footprints |-> 0]
    /\ intermediate_state = <<>>
    /\ kept = <<>>

SpecDebug == InitDebug /\ [][NextDebug]_vars

\* Where the generator stands: the statement it is at and the number of
\* poses each sweep has tested.  Every step of the generator moves it.
position == <<pc, tested>>

\* The statements the generator can be at.
Statements ==
    {"new", "start", "loop", "batch", "ring", "sweep", "yielded", "commit", "done", "raised"}

\* One resumption of a generator that has neither returned nor raised: it
\* reaches a statement, and at most one count of tested poses has changed.
Resume ==
    /\ pc \notin {"done", "raised"}
    /\ pc' \in Statements
    /\ \E f \in DOMAIN tested :
          tested' \in {tested, [tested EXCEPT ![f] = 0], [tested EXCEPT ![f] = @ + 1]}

\* The consumer resumes the generator again and again: a generator that
\* can be resumed is resumed.
SpecLive == InitDebug /\ [][NextDebug]_vars /\ WF_position(Resume)

(***************************************************************************)
(* The autoplacer on a board whose outline lies away from the origin, the  *)
(* point at which the anchor is placed.                                    *)
(***************************************************************************)
FarOutlines ==
    {<<BoundingBox(U(OutlineSide), U(OutlineSide), U(OutlineSide), U(OutlineSide))>>}

InitFar ==
    /\ footprints \in {b \in Boards : Len(b) <= MaxDebugFootprints}
    /\ board_outline \in FarOutlines
    /\ margin \in {U(m) : m \in 0..MaxMargin}
    /\ placed_components = {}
    /\ footprints_not_placed_yet = {}
    /\ placement_status = [status |-> "initialized", issues |-> <<>>]
    /\ pc = "new"
    /\ placement_batch = {}
    /\ placement_candidate = 0
    /\ other_order = <<>>
    /\ search_center = NoVector
    /\ radius = 0
    /\ point_index = 1
    /\ rotation_index = 1
    /\ best_position = <<>>
    /\ best_distance = Inf
    /\ last_call = <<>>
    /\ rats_nest = <<>>
    /\ snapshot = footprints
    /\ first_run = <<>>
    /\ debug_level = 0
    /\ yields = 0
    /\ skip_nets = {"GND"}
    /\ receiver = <<>>
    /\ returned = <<>>
    /\ tested = [i \in DOMAIN footprints |-> 0]
    /\ intermediate_state = <<>>
    /\ kept = <<>>

SpecFar == InitFar /\ [][Next]_vars

(***************************************************************************)
(* The caller runs place_all_components a second time on the same board    *)
(* snapshot, with a new ComponentAutoplacer.                                *)
(***************************************************************************)
HasOverlap ==
    \E i, j \in placed_components :
        i # j /\ overlaps(footprints[i].bounding_box, footprints[j].bounding_box, margin)

HasOutside ==
    /\ board_outline # <<>>
    /\ \E i \in placed_components : ~ contains(board_outline[1], footprints[i].bounding_box)

\* What the caller reads off a drained run.
Outcome == <<placement_status.status, HasOverlap, HasOutside>>

Rerun ==
    /\ pc = "done"
    /\ first_run = <<>>
    /\ first_run' = <<Outcome>>
    /\ footprints' = snapshot
    /\ placed_components' = {}
    /\ footprints_not_placed_yet' = {}
    /\ placement_status' = [status |-> "initialized", issues |-> <<>>]
    /\ pc' = "new"
    /\ placement_batch' = {}
    /\ placement_candidate' = 0
    /\ other_order' = <<>>
    /\ search_center' = NoVector
    /\ radius' = 0
    /\ point_index' = 1
    /\ rotation_index' = 1
    /\ best_position' = <<>>
    /\ best_distance' = Inf
    /\ rats_nest' = <<>>
    /\ yields' = 0
    /\ tested' = [i \in DOMAIN snapshot |-> 0]
    /\ intermediate_state' = <<>>
    /\ kept' = <<>>
    /\ UNCHANGED <<last_call, board_outline, margin, snapshot, debug_level, skip_nets, geometry_vars>>

NextTwice == Next \/ Rerun

SpecTwice == Init /\ [][NextTwice]_vars

(***************************************************************************)
(* PlacementStatus.log_issue called directly, any number of times.         *)
(***************************************************************************)
MaxMessages == 2       \* the first MaxMessages messages of the program are logged

MessageList ==
    << "Two or more locked components overlap each other.",
       "Could not place a component",
       "The circuit has electrically isolated components.",
       "Some locked components are positioned outside of selected outline.",
       "Selected board outline is to find a space for this footprint" >>

Messages == {MessageList[i] : i \in 1..Min(MaxMessages, Len(MessageList))}

PlacementIssueType == {"warning", "error"}

\* A fresh PlacementStatus().
InitLog ==
    /\ pc = "log"
    /\ placement_status = [status |-> "initialized", issues |-> <<>>]
    /\ last_call = <<>>
    /\ footprints = <<>>
    /\ board_outline = <<>>
    /\ margin = 0
    /\ placed_components = {}
    /\ footprints_not_placed_yet = {}
    /\ placement_batch = {}
    /\ placement_candidate = 0
    /\ other_order = <<>>
    /\ search_center = NoVector
    /\ radius = 0
    /\ point_index = 1
    /\ rotation_index = 1
    /\ best_position = <<>>
    /\ best_distance = Inf
    /\ rats_nest = <<>>
    /\ snapshot = footprints
    /\ first_run = <<>>
    /\ debug_level = 0
    /\ yields = 0
    /\ skip_nets = {"GND"}
    /\ receiver = <<>>
    /\ returned = <<>>
    /\ tested = [i \in DOMAIN footprints |-> 0]
    /\ intermediate_state = <<>>
    /\ kept = <<>>

LogIssue ==
    /\ pc = "log"
    /\ \E issue_type \in PlacementIssueType, message \in Messages :
          /\ placement_status' = log_issue(placement_status, issue_type, message)
          /\ last_call' = <<issue_type, message>>
    /\ UNCHANGED <<footprints, placed_components, footprints_not_placed_yet, pc, placement_batch,
                   sweep_vars, rats_nest, caller_vars, geometry_vars, render_vars, yields>>

NextLog == LogIssue

SpecLog == InitLog /\ [][NextLog]_vars

(***************************************************************************)
(* get_rats_nest on boards of three one-pad footprints on one net.         *)
(***************************************************************************)
Grid == 0..MaxGrid

\* P1 and P2 hold one pad at their origin, P3 one pad beside it.  A pad of
\* size 0 at the origin of its footprint has the same bounding box at every
\* rotation of the footprint: the footprint at 45 degrees holds such a pad.
ThirdFootprints ==
    {Footprint(<<"P", "3">>, FALSE, c[1], c[2], r, <<Pad(1, 0, r, 16, 16, net)>>) :
        c \in Grid \X Grid, r \in {0, 90}, net \in {<<"A">>, <<"GND">>, <<>>}}
    \cup {Footprint(<<"P", "3">>, FALSE, c[1], c[2], 45, <<Pad(0, 0, 45, 0, 0, net)>>) :
        c \in Grid \X Grid, net \in {<<"A">>, <<"GND">>, <<>>}}

RatsBoards ==
    {<< Footprint(<<"P", "1">>, FALSE, a[1], a[2], 0, <<Pad(0, 0, 0, 16, 16, <<"A">>)>>),
        Footprint(<<"P", "2">>, FALSE, b[1], b[2], 0, <<Pad(0, 0, 0, 16, 16, net)>>),
        third >> :
     a \in Grid \X Grid, b \in Grid \X Grid, net \in {<<"A">>, <<"B">>}, third \in ThirdFootprints}

InitRats ==
    /\ pc = "rats"
    /\ footprints \in RatsBoards
    /\ rats_nest = <<>>
    /\ placement_status = [status |-> "initialized", issues |-> <<>>]
    /\ last_call = <<>>
    /\ board_outline = <<>>
    /\ margin = 0
    /\ placed_components = {}
    /\ footprints_not_placed_yet = {}
    /\ placement_batch = {}
    /\ placement_candidate = 0
    /\ other_order = <<>>
    /\ search_center = NoVector
    /\ radius = 0
    /\ point_index = 1
    /\ rotation_index = 1
    /\ best_position = <<>>
    /\ best_distance = Inf
    /\ snapshot = footprints
    /\ first_run = <<>>
    /\ debug_level = 0
    /\ yields = 0
    /\ skip_nets \in {{"GND"}, {"A"}}
    /\ receiver = <<>>
    /\ returned = <<>>
    /\ tested = [i \in DOMAIN footprints |-> 0]
    /\ intermediate_state = <<>>
    /\ kept = <<>>

\* get_rats_nest(footprints, nets_to_skip) called directly.
ComputeRatsNest ==
    /\ pc = "rats"
    /\ IF get_net_list_raises(footprints)
       THEN /\ pc' = "raised"
            /\ UNCHANGED rats_nest
       ELSE /\ \E nest \in get_rats_nest(footprints, skip_nets) : rats_nest' = <<nest>>
            /\ pc' = "rats_done"
    /\ UNCHANGED <<footprints, placed_components, footprints_not_placed_yet, placement_status,
                   placement_batch, sweep_vars, last_call, caller_vars, geometry_vars, render_vars, yields>>

\* get_net_list(footprints) called directly.
ComputeNetList ==
    /\ pc = "rats"
    /\ IF get_net_list_raises(footprints)
       THEN /\ pc' = "raised"
            /\ UNCHANGED returned
       ELSE /\ returned' = <<get_net_list(footprints)>>
            /\ pc' = "nets_done"
    /\ UNCHANGED <<footprints, placed_components, footprints_not_placed_yet, placement_status,
                   placement_batch, sweep_vars, last_call, rats_nest, caller_vars, receiver, yields, render_vars>>

NextRats == ComputeRatsNest \/ ComputeNetList

SpecRats == InitRats /\ [][NextRats]_vars

(***************************************************************************)
(* get_rats_nest and get_net_list on boards of four one-pad footprints on  *)
(* one net, the pads in general position: no three on a line and the four  *)
(* not on a circle, so that their Delaunay triangulation is unique.        *)
(***************************************************************************)
GeneralPosition(v) ==
    /\ \A i, j, k \in 1..Len(v) : (i < j /\ j < k) => Orientation(v[i], v[j], v[k]) # 0
    /\ \A i, j, k, l \in 1..Len(v) :
          (i < j /\ j < k /\ k < l) => InCircleDeterminant(v[i], v[j], v[k], v[l]) # 0

FourPadBoards ==
    {b \in {[i \in 1..4 |-> Footprint(<<"P", ToString(i)>>, FALSE, c[i][1], c[i][2], 0,
                                       <<Pad(0, 0, 0, 16, 16, <<"A">>)>>)] :
               c \in [1..4 -> Grid \X Grid]} :
        GeneralPosition([i \in 1..4 |-> b[i].at])}

InitNest ==
    /\ pc = "rats"
    /\ footprints \in FourPadBoards
    /\ rats_nest = <<>>
    /\ placement_status = [status |-> "initialized", issues |-> <<>>]
    /\ last_call = <<>>
    /\ board_outline = <<>>
    /\ margin = 0
    /\ placed_components = {}
    /\ footprints_not_placed_yet = {}
    /\ placement_batch = {}
    /\ placement_candidate = 0
    /\ other_order = <<>>
    /\ search_center = NoVector
    /\ radius = 0
    /\ point_index = 1
    /\ rotation_index = 1
    /\ best_position = <<>>
    /\ best_distance = Inf
    /\ snapshot = footprints
    /\ first_run = <<>>
    /\ debug_level = 0
    /\ yields = 0
    /\ skip_nets = {"GND"}
    /\ receiver = <<>>
    /\ returned = <<>>
    /\ tested = [i \in DOMAIN footprints |-> 0]
    /\ intermediate_state = <<>>
    /\ kept = <<>>

SpecNest == InitNest /\ [][NextRats]_vars

(***************************************************************************)
(* BoundingBox.overlaps in the floats of the program.  A float (an IEEE     *)
(* binary64 number) is [sign, bits, exp]: the value (-1)^sign * m * 2^exp    *)
(* with m written in binary, lowest bit first, of at most 53 bits and odd;  *)
(* zero has no bits.  Sums and differences are rounded to the nearest      *)
(* float, ties to even.  Exponents of the model stay far from the range    *)
(* where floats overflow or lose precision near zero.                       *)
(***************************************************************************)
Precision == 53

RECURSIVE StripHigh(_)
StripHigh(b) ==
    IF b = <<>> \/ b[Len(b)] = 1 THEN b ELSE StripHigh(SubSeq(b, 1, Len(b) - 1))

BitAt(b, i) == IF i <= Len(b) THEN b[i] ELSE 0

RECURSIVE AddBits(_, _, _, _)
AddBits(a, b, i, carry) ==
    IF i > Max(Len(a), Len(b))
    THEN (IF carry = 1 THEN <<1>> ELSE <<>>)
    ELSE <<(BitAt(a, i) + BitAt(b, i) + carry) % 2>>
         \o AddBits(a, b, i + 1, (BitAt(a, i) + BitAt(b, i) + carry) \div 2)

\* a - b for a >= b.
RECURSIVE SubBits(_, _, _, _)
SubBits(a, b, i, borrow) ==
    IF i > Len(a) THEN <<>>
    ELSE <<(BitAt(a, i) - BitAt(b, i) - borrow) % 2>>
         \o SubBits(a, b, i + 1, IF BitAt(a, i) - BitAt(b, i) - borrow < 0 THEN 1 ELSE 0)

\* a < b for numbers without leading zeros.
RECURSIVE LessFrom(_, _, _)
LessFrom(a, b, i) ==
    IF i = 0 THEN FALSE
    ELSE IF a[i] # b[i] THEN a[i] < b[i]
    ELSE LessFrom(a, b, i - 1)

LessBits(a, b) == Len(a) < Len(b) \/ (Len(a) = Len(b) /\ LessFrom(a, b, Len(a)))

FloatZero == [sign |-> 0, bits |-> <<>>, exp |-> 0]

\* The same number with an odd m.
RECURSIVE Canonical(_, _, _)
Canonical(sign, bits, exp) ==
    IF bits = <<>> THEN FloatZero
    ELSE IF bits[1] = 0 THEN Canonical(sign, Tail(bits), exp + 1)
    ELSE [sign |-> sign, bits |-> bits, exp |-> exp]

\* Round to nearest, ties to even: `drop` low bits of m are dropped.
RoundedBits(bits, drop) ==
    IF /\ bits[drop] = 1
       /\ \/ \E i \in 1..(drop - 1) : bits[i] = 1
          \/ bits[drop + 1] = 1
    THEN AddBits(SubSeq(bits, drop + 1, Len(bits)), <<1>>, 1, 0)
    ELSE SubSeq(bits, drop + 1, Len(bits))

\* The float nearest to (-1)^sign * m * 2^exp, m without leading zeros.
Round(sign, bits, exp) ==
    IF Len(bits) <= Precision THEN Canonical(sign, bits, exp)
    ELSE Canonical(sign, RoundedBits(bits, Len(bits) - Precision), exp + Len(bits) - Precision)

\* m of x when the number is written with the exponent exp <= x.exp.
Aligned(x, exp) == [i \in 1..(x.exp - exp) |-> 0] \o x.bits

\* (-1)^s1 * a + (-1)^s2 * b, as sign and magnitude.
SignedSum(s1, a, s2, b, exp) ==
    IF s1 = s2 THEN Round(s1, AddBits(a, b, 1, 0), exp)
    ELSE IF a = b THEN FloatZero
    ELSE IF LessBits(a, b) THEN Round(s2, StripHigh(SubBits(b, a, 1, 0)), exp)
    ELSE Round(s1, StripHigh(SubBits(a, b, 1, 0)), exp)

\* x + y in floats.
float_add(x, y) ==
    IF x.bits = <<>> THEN y
    ELSE IF y.bits = <<>> THEN x
    ELSE SignedSum(x.sign, Aligned(x, Min(x.exp, y.exp)),
                   y.sign, Aligned(y, Min(x.exp, y.exp)), Min(x.exp, y.exp))

float_neg(x) == IF x.bits = <<>> THEN x ELSE [x EXCEPT !.sign = 1 - @]

\* x - y in floats.
float_sub(x, y) == float_add(x, float_neg(y))

\* x * 2 in floats.
float_double(x) == IF x.bits = <<>> THEN x ELSE [x EXCEPT !.exp = @ + 1]

\* x <= y and x >= y on floats: the sign of the difference, which rounding keeps.
float_le(x, y) == float_sub(x, y).bits = <<>> \/ float_sub(x, y).sign = 1
float_ge(x, y) == float_le(y, x)

\* The binary expansion of r / d (0 <= r < d) appended below the bits of m,
\* up to two bits more than a float holds and one that records a remainder.
RECURSIVE Expand(_, _, _, _)
Expand(bits, r, d, exp) ==
    IF r = 0 THEN Round(0, StripHigh(bits), exp)
    ELSE IF Len(StripHigh(bits)) >= Precision + 2 THEN Round(0, StripHigh(<<1>> \o bits), exp - 1)
    ELSE Expand(<<(2 * r) \div d>> \o bits, (2 * r) % d, d, exp - 1)

RECURSIVE NatBits(_)
NatBits(n) == IF n = 0 THEN <<>> ELSE <<n % 2>> \o NatBits(n \div 2)

\* float(n / d) for a decimal literal n/d: the float nearest to the quotient.
Float(n, d) ==
    IF n < 0 THEN float_neg(Expand(NatBits((-n) \div d), (-n) % d, d, 0))
    ELSE Expand(NatBits(n \div d), n % d, d, 0)

\* BoundingBox.overlaps on boxes and a margin held in floats.
overlaps_in_floats(self, other, m) ==
    ~ (   float_le(float_add(float_sub(self.x, m), float_add(self.width, float_double(m))),
                   float_sub(other.x, m))
       \/ float_ge(float_sub(self.x, m), float_add(float_add(other.x, other.width), m))
       \/ float_le(float_add(float_sub(self.y, m), float_add(self.height, float_double(m))),
                   float_sub(other.y, m))
       \/ float_ge(float_sub(self.y, m), float_add(float_add(other.y, other.height), m)))

MaxTenths == 6         \* box coordinates and widths are 0.0, 0.1 .. MaxTenths / 10

\* Boxes of height 1 on the line y = 0, in tenths.
FloatBoxes ==
    {BoundingBox(Float(x, 10), Float(0, 1), Float(w, 10), Float(1, 1)) :
        x \in 0..MaxTenths, w \in 0..MaxTenths}

FloatMargins == {Float(-1, 10), Float(0, 1), Float(1, 10)}

InitOverlaps ==
    /\ pc = "overlaps"
    /\ receiver \in FloatBoxes
    /\ returned = <<>>
    /\ last_call = <<>>
    /\ footprints = <<>>
    /\ board_outline = <<>>
    /\ margin = 0
    /\ placed_components = {}
    /\ footprints_not_placed_yet = {}
    /\ placement_status = [status |-> "initialized", issues |-> <<>>]
    /\ placement_batch = {}
    /\ placement_candidate = 0
    /\ other_order = <<>>
    /\ search_center = NoVector
    /\ radius = 0
    /\ point_index = 1
    /\ rotation_index = 1
    /\ best_position = <<>>
    /\ best_distance = Inf
    /\ rats_nest = <<>>
    /\ snapshot = footprints
    /\ first_run = <<>>
    /\ debug_level = 0
    /\ yields = 0
    /\ skip_nets = {"GND"}
    /\ tested = [i \in DOMAIN footprints |-> 0]
    /\ intermediate_state = <<>>
    /\ kept = <<>>

\* receiver.overlaps(other, m) and other.overlaps(receiver, m) are called.
Overlaps ==
    /\ pc = "overlaps"
    /\ \E other \in FloatBoxes, m \in FloatMargins :
          /\ returned' = <<overlaps_in_floats(receiver, other, m),
                           overlaps_in_floats(other, receiver, m)>>
          /\ last_call' = <<other, m>>
    /\ pc' = "overlaps_done"
    /\ UNCHANGED <<footprints, placed_components, footprints_not_placed_yet, placement_status,
                   placement_batch, sweep_vars, rats_nest, caller_vars, receiver, yields, render_vars>>

NextOverlaps == Overlaps

SpecOverlaps == InitOverlaps /\ [][NextOverlaps]_vars

(***************************************************************************)
(* Vector2D.rotate and BoundingBox.rotate called directly, on points and   *)
(* boxes of the grid and quarter turns.  The rotated coordinates are the   *)
(* exact ones; the program's differ from them by a rounding error of about *)
(* 1e-16 times the coordinate.                                             *)
(***************************************************************************)
GridVectors == {Vector2D(U(x), U(y)) : x \in Grid, y \in Grid}

GridBoxes == {BoundingBox(U(x), U(y), U(w), U(1)) : x \in Grid, y \in Grid, w \in 1..2}

QuarterTurns == {0, 90, 180, 270, -90}

IsVector(v) == DOMAIN v = {"x", "y"}

InitRotate ==
    /\ pc = "rotate"
    /\ receiver \in GridVectors \cup GridBoxes
    /\ returned = <<>>
    /\ last_call = <<>>
    /\ footprints = <<>>
    /\ board_outline = <<>>
    /\ margin = 0
    /\ placed_components = {}
    /\ footprints_not_placed_yet = {}
    /\ placement_status = [status |-> "initialized", issues |-> <<>>]
    /\ placement_batch = {}
    /\ placement_candidate = 0
    /\ other_order = <<>>
    /\ search_center = NoVector
    /\ radius = 0
    /\ point_index = 1
    /\ rotation_index = 1
    /\ best_position = <<>>
    /\ best_distance = Inf
    /\ rats_nest = <<>>
    /\ snapshot = footprints
    /\ first_run = <<>>
    /\ debug_level = 0
    /\ yields = 0
    /\ skip_nets = {"GND"}
    /\ tested = [i \in DOMAIN footprints |-> 0]
    /\ intermediate_state = <<>>
    /\ kept = <<>>

\* receiver.rotate(rotation_center, angle) on a Vector2D: the receiver is
\* assigned the rotated coordinates (lines 63-68) and nothing is returned.
RotateVector ==
    /\ pc = "rotate"
    /\ IsVector(receiver)
    /\ \E rotation_center \in GridVectors, angle \in QuarterTurns :
          /\ receiver' = Vector2D_rotate(receiver, rotation_center, angle)
          /\ last_call' = <<rotation_center, angle>>
    /\ returned' = <<>>
    /\ pc' = "rotated"
    /\ UNCHANGED <<footprints, placed_components, footprints_not_placed_yet, placement_status,
                   placement_batch, sweep_vars, rats_nest, caller_vars, yields, render_vars>>

\* receiver.rotate(rotation, rotation_center) on a BoundingBox: a new box is
\* returned (lines 188-193); the corners that are rotated are new points.
RotateBox ==
    /\ pc = "rotate"
    /\ ~ IsVector(receiver)
    /\ \E rotation_center \in GridVectors, rotation \in QuarterTurns :
          /\ returned' = <<BoundingBox_rotate(receiver, rotation, rotation_center)>>
          /\ last_call' = <<rotation_center, rotation>>
    /\ pc' = "rotated"
    /\ UNCHANGED <<footprints, placed_components, footprints_not_placed_yet, placement_status,
                   placement_batch, sweep_vars, rats_nest, caller_vars, receiver, yields, render_vars>>

NextRotate == RotateVector \/ RotateBox

SpecRotate == InitRotate /\ [][NextRotate]_vars

(***************************************************************************)
(* points_on_circle(center, radius, dx) called directly and drained, on    *)
(* centres of the half grid, where the additions of the program are exact. *)
(* Each point is recorded with the coordinates it has when it is yielded:  *)
(* the generator yields one Vector2D object and moves it between yields.   *)
(***************************************************************************)
MaxRing == 3

CircleCenters ==
    {Vector2D(U(x) \div 2, U(y) \div 2) : x \in -MaxGrid..MaxGrid, y \in -MaxGrid..MaxGrid}

InitCircle ==
    /\ pc = "circle"
    /\ search_center \in CircleCenters
    /\ radius \in 0..MaxRing
    /\ receiver = <<>>
    /\ returned = <<>>
    /\ last_call = <<>>
    /\ footprints = <<>>
    /\ board_outline = <<>>
    /\ margin = 0
    /\ placed_components = {}
    /\ footprints_not_placed_yet = {}
    /\ placement_status = [status |-> "initialized", issues |-> <<>>]
    /\ placement_batch = {}
    /\ placement_candidate = 0
    /\ other_order = <<>>
    /\ point_index = 1
    /\ rotation_index = 1
    /\ best_position = <<>>
    /\ best_distance = Inf
    /\ rats_nest = <<>>
    /\ snapshot = footprints
    /\ first_run = <<>>
    /\ debug_level = 0
    /\ yields = 0
    /\ skip_nets = {"GND"}
    /\ tested = [i \in DOMAIN footprints |-> 0]
    /\ intermediate_state = <<>>
    /\ kept = <<>>

\* list((p.x, p.y) for p in points_on_circle(search_center, radius, dx)):
\* the centre is copied (line 406) and left as it was.
PointsOnCircle ==
    /\ pc = "circle"
    /\ returned' = <<points_on_circle(search_center, radius, dx)>>
    /\ last_call' = <<search_center, radius, dx>>
    /\ pc' = "circle_done"
    /\ UNCHANGED <<footprints, placed_components, footprints_not_placed_yet, placement_status,
                   placement_batch, sweep_vars, rats_nest, caller_vars, receiver, yields, render_vars>>

NextCircle == PointsOnCircle

SpecCircle == InitCircle /\ [][NextCircle]_vars

(***************************************************************************)
(* The numbers of the model are adequate: every mean taken by              *)
(* get_search_center is a whole number of 1/Unit.                          *)
(***************************************************************************)
SearchCenterIsExact ==
    (pc \in {"ring", "sweep", "yielded", "commit"}) =>
        MeanIsExact(other_pad_positions(footprints, placement_candidate, placed_components))

(***************************************************************************)
(* Properties.                                                             *)
(***************************************************************************)
NonLockedPlaced == {i \in placed_components : ~ footprints[i].locked}

HasError ==
    \E i \in 1..Len(placement_status.issues) : placement_status.issues[i].type = "error"

\* C1: after the generator has been drained with status Success, no two
\* distinct non-locked placed footprints overlap at the margin of the run.
C1_NoOverlapAfterSuccess ==
    (pc = "done" /\ placement_status.status = "success") =>
        \A i, j \in NonLockedPlaced :
            i # j => ~ overlaps(footprints[i].bounding_box, footprints[j].bounding_box, margin)

\* C2: with an outline, after the generator has been drained every non-locked
\* placed footprint, the anchor included, lies inside the outline, or else an
\* Error issue is logged and the final status is Failed.
C2_InsideOutlineOrFailed ==
    (pc = "done" /\ board_outline # <<>>) =>
        \A i \in NonLockedPlaced :
            \/ contains(board_outline[1], footprints[i].bounding_box)
            \/ HasError /\ placement_status.status = "failed"

\* C3: no step of the constructor or of the generator changes the position,
\* the rotation, the pads or the bounding box of a locked footprint.
C3_LockedNeverMoved ==
    [][\A i \in 1..Len(footprints) :
           footprints[i].locked =>
               /\ footprints'[i].at = footprints[i].at
               /\ footprints'[i].pads = footprints[i].pads
               /\ footprints'[i].bounding_box = footprints[i].bounding_box]_vars

\* C3 witness: a drained run on a board with a locked footprint, still where
\* the board file put it, and a footprint the autoplacer has moved.
C3_Witness ==
    /\ pc = "done"
    /\ \E i, j \in 1..Len(footprints) :
          /\ footprints[i].locked
          /\ footprints[i].at = snapshot[i].at
          /\ ~ footprints[j].locked
          /\ footprints[j].placed
          /\ footprints[j].at # snapshot[j].at

\* C4: Failed is absorbing: a step taken when the status is Failed leaves it Failed.
C4_FailedIsAbsorbing ==
    [][placement_status.status = "failed" => placement_status'.status = "failed"]_vars

\* C5: a second run on the same board, outline and margin ends with the same
\* status, the same answer to 'do two placed footprints overlap' and the same
\* answer to 'is a placed footprint outside the outline' as the first run,
\* whatever orders the two runs iterate their sets in.
C5_SameOutcomeInEveryOrder ==
    (pc = "done" /\ first_run # <<>>) => Outcome = first_run[1]

\* C6: a candidate whose sweep found no feasible pose is committed at the
\* staging pose (100, 100, 0).
C6_FallbackIsStagingPose ==
    [][(pc = "commit" /\ best_position = <<>>) =>
          footprints'[placement_candidate].at = StagingPose]_vars

LockedOverlapWarning ==
    PlacementIssue("warning", "Two or more locked components overlap each other.")

LockedOverlap ==
    \E i, j \in locked_components(footprints) :
        i # j /\ overlaps(footprints[i].bounding_box, footprints[j].bounding_box, 0)

\* C7: if two locked footprints overlap at margin 0, the issue list holds
\* exactly one Warning for it right after construction.
C7_OneWarningForLockedOverlap ==
    (pc = "start" /\ LockedOverlap) =>
        Cardinality({i \in 1..Len(placement_status.issues) :
                        placement_status.issues[i] = LockedOverlapWarning}) = 1

\* C7 witness: three locked footprints, each overlapping another one, after construction.
C7_Witness ==
    /\ pc = "start"
    /\ Cardinality({i \in locked_components(footprints) :
            \E j \in locked_components(footprints) :
                i # j /\ overlaps(footprints[i].bounding_box, footprints[j].bounding_box, 0)}) = 3
    /\ Cardinality({i \in 1..Len(placement_status.issues) :
                        placement_status.issues[i] = LockedOverlapWarning}) = 1

NoDuplicateIssues ==
    \A i, j \in 1..Len(placement_status.issues) :
        placement_status.issues[i] = placement_status.issues[j] => i = j

IsRecorded(call) ==
    \E i \in 1..Len(placement_status.issues) :
        placement_status.issues[i] = PlacementIssue(call[1], call[2])

\* C8: log_issue is idempotent: a call with a (kind, message) that is already
\* recorded changes neither the issue list nor the status, and the issue list
\* never holds two equal entries.
C8_LogIssueIdempotent ==
    /\ []NoDuplicateIssues
    /\ [][(pc = "log" /\ IsRecorded(last_call')) => placement_status' = placement_status]_vars

\* C8 witness: the last call repeated an issue recorded before the latest one.
C8_Witness ==
    /\ pc = "log"
    /\ Len(placement_status.issues) >= 2
    /\ last_call # <<>>
    /\ placement_status.issues[1] = PlacementIssue(last_call[1], last_call[2])
    /\ placement_status.status = "failed"

\* C9: a board of one unlocked footprint and no outline is drained with the
\* footprint placed at (0, 0) with rotation 0, status Success and no issue.
C9_SingleFootprintAtOrigin ==
    (pc = "done" /\ Len(footprints) = 1 /\ ~ footprints[1].locked /\ board_outline = <<>>) =>
        /\ footprints[1].at = Vector2DWithRotation(0, 0, 0)
        /\ footprints[1].placed
        /\ placed_components = {1}
        /\ placement_status = [status |-> "success", issues |-> <<>>]

\* C9 witness: such a board, drained, its footprint moved from where the board file had it.
C9_Witness ==
    /\ pc = "done"
    /\ Len(footprints) = 1
    /\ ~ footprints[1].locked
    /\ board_outline = <<>>
    /\ snapshot[1].at # Vector2DWithRotation(0, 0, 0)
    /\ footprints[1].at = Vector2DWithRotation(0, 0, 0)

Joins(line, a, b) ==
    \/ line = Line(a.x, b.x, a.y, b.y)
    \/ line = Line(b.x, a.x, b.y, a.y)

\* The lines are the three sides of the triangle v[1], v[2], v[3].
IsTriangleOf(lines, v) ==
    /\ \A k \in 1..Len(lines) :
          \E i, j \in 1..3 : i # j /\ v[i] # v[j] /\ Joins(lines[k], v[i], v[j])
    /\ \A i, j \in 1..3 :
          i < j => Cardinality({k \in 1..Len(lines) : Joins(lines[k], v[i], v[j])}) = 1

\* C10: for a net of exactly 3 pads at three different positions,
\* get_rats_nest emits the 3 sides of the triangle of the pad positions.
C10_ThreePadsGiveTriangle ==
    (/\ pc = "rats_done"
     /\ "A" \notin skip_nets
     /\ Len(get_net_list(footprints)["A"]) = 3
     /\ Cardinality(Range(get_net_list(footprints)["A"])) = 3) =>
        /\ "A" \in DOMAIN rats_nest[1]
        /\ IsTriangleOf(rats_nest[1]["A"], get_net_list(footprints)["A"])

\* The global positions of the pads of the placed footprints on the net `name`.
PlacedPadPositions(name) ==
    Range(SameNetPositions(footprints, SetToSeq(placed_components), name))

\* The segments of `lines` that end at the global position of the pad.
SegmentsOfPad(lines, pad) ==
    {k \in 1..Len(lines) :
        /\ lines[k].x2 = get_global_position(pad, footprints[placement_candidate]).x
        /\ lines[k].y2 = get_global_position(pad, footprints[placement_candidate]).y}

\* The segment joins the pad to a placed pad of the net at minimum Manhattan distance.
JoinsClosest(line, name) ==
    /\ Vector2D(line.x1, line.y1) \in PlacedPadPositions(name)
    /\ \A p \in PlacedPadPositions(name) :
          manhattan_distance(line)
              <= manhattan_distance(line_from_two_points(p, Vector2D(line.x2, line.y2)))

OneSegmentPerPad(part_rats_nest, pads) ==
    \A i \in 1..Len(pads) :
        pads[i].net # <<>> =>
            IF PlacedPadPositions(pads[i].net[1]) = {}
            THEN pads[i].net[1] \notin DOMAIN part_rats_nest
            ELSE /\ pads[i].net[1] \in DOMAIN part_rats_nest
                 /\ Cardinality(SegmentsOfPad(part_rats_nest[pads[i].net[1]], pads[i])) = 1
                 /\ \A k \in 1..Len(part_rats_nest[pads[i].net[1]]) :
                       JoinsClosest(part_rats_nest[pads[i].net[1]][k], pads[i].net[1])

\* A pose of the candidate has been tested: the candidate stands at a pose of
\* the sweep and get_connections_to_closest_other_footprints has been called on it.
PoseHasBeenTested ==
    /\ placement_candidate # 0
    /\ \/ pc = "sweep" /\ (point_index > 1 \/ rotation_index > 1)
       \/ pc = "commit" /\ best_position # <<>>

\* C11: for a tested pose, get_connections_to_closest_other_footprints gives
\* exactly one segment for every pad of the candidate whose net has a pad on a
\* placed footprint, joining it to such a pad at minimum Manhattan distance,
\* and nothing for the other pads.
C11_OneClosestSegmentPerPad ==
    PoseHasBeenTested =>
        OneSegmentPerPad(
            get_connections_to_closest_other_footprints(
                footprints, footprints[placement_candidate], other_order),
            footprints[placement_candidate].pads)

\* The number of pads of the board on the net `name`.
PadsOfNet(name) ==
    Cardinality({p \in (1..Len(footprints)) \X (1..3) :
        /\ p[2] <= Len(footprints[p[1]].pads)
        /\ footprints[p[1]].pads[p[2]].net = <<name>>})

SegmentsOfNet(nest, name) == IF name \in DOMAIN nest THEN nest[name] ELSE <<>>

\* C12: in the output of get_rats_nest no net of nets_to_skip appears, a net
\* of 1 pad has no segment, a net of 2 pads has exactly 1 segment, which joins
\* the two pad positions, and a net of 3 pads has exactly 3 segments.
C12_SegmentsPerNetSize ==
    pc = "rats_done" =>
        \A name \in NetNames(footprints) :
            /\ name \in skip_nets => name \notin DOMAIN rats_nest[1]
            /\ PadsOfNet(name) = 1 => Len(SegmentsOfNet(rats_nest[1], name)) = 0
            /\ (PadsOfNet(name) = 2 /\ name \notin skip_nets) =>
                  /\ Len(SegmentsOfNet(rats_nest[1], name)) = 1
                  /\ Joins(SegmentsOfNet(rats_nest[1], name)[1],
                           get_net_list(footprints)[name][1], get_net_list(footprints)[name][2])
            /\ (PadsOfNet(name) = 3 /\ name \notin skip_nets) =>
                  Len(SegmentsOfNet(rats_nest[1], name)) = 3

\* C12 witness: the computed ratsnest of a board whose net A has 2 pads and
\* 1 segment and whose net GND has 1 pad and is skipped.
C12_Witness ==
    /\ pc = "rats_done"
    /\ skip_nets = {"GND"}
    /\ PadsOfNet("A") = 2
    /\ PadsOfNet("GND") = 1
    /\ DOMAIN rats_nest[1] = {"A"}
    /\ Len(rats_nest[1]["A"]) = 1

\* C13: get_net_list raises, and returns no net list, whenever a footprint of
\* its input is at a rotation that is not a multiple of 90 degrees.
C13_RaisesOnOddRotation ==
    (/\ pc \in {"nets_done", "raised"}
     /\ \E f \in 1..Len(footprints) : footprints[f].at.rot % 90 # 0) =>
        pc = "raised" /\ returned = <<>>

\* C14: BoundingBox.overlaps is symmetric: A.overlaps(B, m) = B.overlaps(A, m).
C14_OverlapsIsSymmetric ==
    pc = "overlaps_done" => returned[1] = returned[2]

\* The value a pure rotate returns for the receiver and the arguments.
RotatedValue(self, rotation_center, angle) ==
    IF IsVector(self) THEN Vector2D_rotate(self, rotation_center, angle)
    ELSE BoundingBox_rotate(self, angle, rotation_center)

\* C15: rotate is pure for Vector2D and for BoundingBox: a call leaves the
\* receiver as it was and returns a new value that holds the rotated result.
C15_RotateIsPure ==
    [][(pc = "rotate" /\ pc' = "rotated") =>
          /\ receiver' = receiver
          /\ returned' = <<RotatedValue(receiver, last_call'[1], last_call'[2])>>]_vars

\* C16: at debug level 0 the generator yields exactly once, as its last
\* action, after every commit and after the final status is set; at debug
\* level 1 or more every tested (point, rotation) pose is followed by one
\* yield and the end of the run by one more, and no other step yields: the
\* number of yields is the number of tested poses plus one.
C16_YieldProtocol ==
    [][/\ pc # "done"
       /\ pc = "sweep" => yields' = yields + (IF debug_level >= 1 THEN 1 ELSE 0)
       /\ (pc # "sweep" /\ pc' # "done") => yields' = yields
       /\ pc' = "done" =>
            /\ yields' = yields + 1
            /\ debug_level = 0 => yields' = 1
            /\ placement_status'.status \in {"success", "failed"}
            /\ placement_batch' = {}]_vars

C16_Witness ==
    /\ pc = "done"
    /\ debug_level >= 1
    /\ yields > 1
    /\ Len(footprints) = 2

\* C17: once a footprint is in placed_components (locked at construction,
\* the anchor, or committed by place_footprint), no later step of the run
\* changes its position or its rotation.
C17_PlacedNeverMoves ==
    [][\A i \in placed_components : footprints'[i].at = footprints[i].at]_vars

C17_Witness ==
    /\ pc = "commit"
    /\ best_position # <<>>
    /\ NonLockedPlaced # {}
    /\ Cardinality(placed_components) >= 2
    /\ \E i \in placed_components : footprints[i].locked

\* The candidate moved to the pose, the other footprints as they are.
MovedTo(pose) == [footprints EXCEPT ![placement_candidate] = set_position(@, pose)]

\* The pose tested at point k of the ring r with rotation j.
RingPose(r, k, j) ==
    Vector2DWithRotation(points_on_circle(search_center, r, dx)[k].x,
                         points_on_circle(search_center, r, dx)[k].y, rotation_settings[j])

\* The least Manhattan distance from the point to one of the positions.
MinDistance(positions, point) ==
    CHOOSE d \in {manhattan_distance(line_from_two_points(positions[i], point)) : i \in 1..Len(positions)} :
        \A i \in 1..Len(positions) : d <= manhattan_distance(line_from_two_points(positions[i], point))

\* The cost of one pad: the distance to the closest placed pad of its net,
\* nothing for a pad without a net, on GND or on a net without a placed pad.
PadCost(moved, pad, positions) ==
    IF positions = <<>> THEN 0
    ELSE MinDistance(positions, get_global_position(pad, moved[placement_candidate]))

\* The summed Manhattan length of one segment per pad to the closest placed
\* pad of the same net, GND excluded.
ClosestCost(moved) ==
    Sum([i \in 1..Len(moved[placement_candidate].pads) |->
           IF moved[placement_candidate].pads[i].net = <<>>
              \/ moved[placement_candidate].pads[i].net = <<"GND">>
           THEN 0
           ELSE PadCost(moved, moved[placement_candidate].pads[i],
                        SameNetPositions(moved, other_order, moved[placement_candidate].pads[i].net[1]))])

\* The pose at (k, j) of the ring is feasible and no feasible pose of the ring
\* is cheaper, nor as cheap and tested before it.
FirstCheapestOfRing(r, k, j, cost) ==
    /\ Feasible(MovedTo(RingPose(r, k, j)))
    /\ \A k2 \in 1..RingSize(r, dx), j2 \in 1..Len(rotation_settings) :
          Feasible(MovedTo(RingPose(r, k2, j2))) =>
              \/ cost < ClosestCost(MovedTo(RingPose(r, k2, j2)))
              \/ /\ cost = ClosestCost(MovedTo(RingPose(r, k2, j2)))
                 /\ (k < k2 \/ (k = k2 /\ j <= j2))

\* C18: the pose about to be committed after a successful sweep is the
\* lexicographic minimum of (ring radius, cost): no pose of a smaller ring
\* passes the overlap and outline tests, no larger ring has been tested, and
\* the pose is the first tested of the feasible poses of its ring with the
\* lowest summed Manhattan cost to the closest same-net placed pads.
C18_CommittedPoseIsLexicographicMinimum ==
    (pc = "commit" /\ best_position # <<>>) =>
        /\ \A r \in 0..(radius - 1) : \A k \in 1..RingSize(r, dx), j \in 1..Len(rotation_settings) :
              ~ Feasible(MovedTo(RingPose(r, k, j)))
        /\ \E k \in 1..RingSize(radius, dx), j \in 1..Len(rotation_settings) :
              /\ RingPose(radius, k, j) = best_position[1]
              /\ FirstCheapestOfRing(radius, k, j, ClosestCost(MovedTo(best_position[1])))

\* An Error of a sweep is in the issue list: the outline ran out before a
\* feasible pose was found (line 205), or no pose was found at all (line 265).
SweepErrorLogged ==
    \E k \in 1..Len(placement_status.issues) :
        /\ placement_status.issues[k].type = "error"
        /\ placement_status.issues[k].message \in
              {"Selected board outline is to find a space for this footprint",
               "Could not place a component"}

\* C19: after an Error is logged during the sweep of a candidate, the
\* candidate is still committed with placed set, and no sweep is started for
\* another footprint in the rest of the run, the other members of the same
\* batch included.
C19_NoSweepAfterSweepError ==
    [][/\ (pc = "commit" /\ SweepErrorLogged') =>
             /\ placement_candidate \in placed_components'
             /\ footprints'[placement_candidate].placed
       /\ (pc = "batch" /\ SweepErrorLogged) => pc' # "ring"]_vars

\* The two footprints have pads on a common net other than GND and the empty name.
SharesNet(a, b) ==
    \E i \in 1..Len(a.pads), j \in 1..Len(b.pads) :
        /\ a.pads[i].net # <<>>
        /\ a.pads[i].net = b.pads[j].net
        /\ a.pads[i].net[1] \notin {"", "GND"}

\* The waitlist footprints that share a net with a placed footprint.
ConnectedWaitlist ==
    {f \in footprints_not_placed_yet :
        \E p \in placed_components : SharesNet(footprints[f], footprints[p])}

\* C20: the batch computed at the top of an iteration of the main loop is
\* exactly the set of waitlist footprints that share a net other than GND and
\* the empty name with a footprint of placed_components (when there is none,
\* one footprint popped from the waitlist); the members of the batch leave the
\* waitlist, and no locked or placed footprint is in a batch.
C20_BatchIsConnectedWaitlist ==
    [][(pc = "loop" /\ pc' = "batch") =>
          /\ ConnectedWaitlist # {} => placement_batch' = ConnectedWaitlist
          /\ ConnectedWaitlist = {} =>
                /\ Cardinality(placement_batch') = 1
                /\ placement_batch' \subseteq footprints_not_placed_yet
          /\ footprints_not_placed_yet' = footprints_not_placed_yet \ placement_batch'
          /\ placement_batch' \cap (placed_components \cup locked_components(footprints)) = {}]_vars

C20_Witness ==
    /\ pc = "batch"
    /\ placement_candidate = 0
    /\ placement_batch # {}
    /\ footprints_not_placed_yet # {}
    /\ \A f \in placement_batch :
          \E p \in placed_components : SharesNet(footprints[f], footprints[p])
    /\ \E f \in footprints_not_placed_yet : footprint_nets(footprints[f]) # {}

\* The distinct net names other than GND on the pads of the footprint.
DistinctNets(fp) ==
    {name \in {fp.pads[i].net : i \in 1..Len(fp.pads)} : name # <<>> /\ name # <<"GND">>}

\* C21: when no footprint is locked, the first footprint committed has the
\* greatest number of distinct net names other than GND among the unlocked
\* footprints, and it is committed at (0, 0) with rotation 0 before any other
\* footprint is placed.
C21_AnchorIsMostConnected ==
    [][(pc = "start" /\ locked_components(footprints) = {}) =>
          \E anchor \in 1..Len(footprints) :
              /\ placed_components' = {anchor}
              /\ footprints'[anchor].at = Vector2DWithRotation(0, 0, 0)
              /\ footprints'[anchor].placed
              /\ \A g \in 1..Len(footprints) :
                    /\ Cardinality(DistinctNets(footprints[g]))
                          <= Cardinality(DistinctNets(footprints[anchor]))
                    /\ g # anchor => ~ footprints'[g].placed]_vars

C21_Witness ==
    /\ pc = "loop"
    /\ locked_components(footprints) = {}
    /\ Cardinality(placed_components) = 1
    /\ \E f \in placed_components, g \in footprints_not_placed_yet :
          /\ footprints[f].at = Vector2DWithRotation(0, 0, 0)
          /\ Cardinality(DistinctNets(footprints[g])) < Cardinality(DistinctNets(footprints[f]))

\* The Warning about isolated components.
IsolatedWarning ==
    [type |-> "warning", message |-> "The circuit has electrically isolated components."]

\* C22: when the computed batch is empty and the waitlist is not, exactly one
\* footprint leaves the waitlist and is the whole batch; the Warning about
\* electrically isolated components is logged if and only if the name of
\* that footprint does not start with "MountingHole", and the status does
\* not become Failed in this step.
C22_IsolatedFootprintIsPopped ==
    [][(pc = "loop" /\ pc' = "batch" /\ ConnectedWaitlist = {}) =>
          \E next_footprint \in footprints_not_placed_yet :
              /\ placement_batch' = {next_footprint}
              /\ footprints_not_placed_yet' = footprints_not_placed_yet \ {next_footprint}
              /\ placement_status'.status = "running"
              /\ IF startswith(footprints[next_footprint].name, <<"M", "o", "u", "n", "t", "i", "n", "g", "H", "o", "l", "e">>)
                 THEN placement_status'.issues = placement_status.issues
                 ELSE /\ IsolatedWarning \in Range(placement_status'.issues)
                      /\ placement_status'.issues \in
                            {placement_status.issues, Append(placement_status.issues, IsolatedWarning)}]_vars

C22_Witness ==
    /\ pc = "batch"
    /\ placement_status.status = "running"
    /\ IsolatedWarning \in Range(placement_status.issues)
    /\ \E f \in 1..Len(footprints) :
          /\ placement_batch = {f}
          /\ f \notin placed_components
          /\ startswith(footprints[f].name, MountingHolePrefix)

\* C23: at every yield of the generator, for every debug level, each
\* footprint of the board is in exactly one of placed_components and
\* footprints_not_placed_yet.
C23_PartitionAtEveryYield ==
    [][yields' # yields =>
          \A f \in 1..Len(footprints') :
              (f \in placed_components') # (f \in footprints_not_placed_yet')]_vars

\* Rings checked beyond the one at which a sweep was aborted.
MaxBeyond == 2

\* The sweep of the candidate was left at line 207: no pose found and the
\* radius larger than both sides of the outline.
AbortedByOutline ==
    /\ pc = "commit"
    /\ best_position = <<>>
    /\ board_outline # <<>>
    /\ radius < max_radius
    /\ U(radius) > board_outline[1].width
    /\ U(radius) > board_outline[1].height

\* C24: when the sweep of a candidate is aborted because the radius exceeds
\* both sides of the outline, no pose at that radius or a larger one (whole
\* offsets from the search centre, rotations 0, 90, 180, 270) passes both the
\* overlap test and the outline test.
C24_NothingFeasibleBeyondAbort ==
    AbortedByOutline =>
        \A r \in radius..(radius + MaxBeyond) :
            \A k \in 1..RingSize(r, dx), j \in 1..Len(rotation_settings) :
                ~ Feasible(MovedTo(RingPose(r, k, j)))

\* The two lines join the same two points, in either direction.
SameEdge(a, b) ==
    \/ a = b
    \/ (a.x1 = b.x2 /\ a.y1 = b.y2 /\ a.x2 = b.x1 /\ a.y2 = b.y1)

\* C25: for a net with 4 or more pads, get_rats_nest emits every edge of
\* the triangulation exactly once: an edge shared by two triangles gives one
\* segment, not two, in either direction.
C25_EveryEdgeOnce ==
    (pc = "rats_done" /\ "A" \in DOMAIN rats_nest[1] /\ PadsOfNet("A") >= 4) =>
        /\ \A t \in Range(delaunay(get_net_list(footprints)["A"])) :
              \A e \in UNION {Range(lines) : lines \in TriangleEdges(t.vertices)} :
                  \E k \in 1..Len(rats_nest[1]["A"]) : SameEdge(rats_nest[1]["A"][k], e)
        /\ \A k, l \in 1..Len(rats_nest[1]["A"]) :
              k # l => ~ SameEdge(rats_nest[1]["A"][k], rats_nest[1]["A"][l])

\* The number of poses the list of an IntermediateState holds now.
PosesNow(state) == tested[state.previously_tested_footprint_positions_for_rendering]

\* C26: an IntermediateState that has been yielded is not changed by later
\* steps of the generator: its list of previously tested poses holds the
\* poses tested for the candidate up to the step that yielded it, also after
\* further poses have been tested.
C26_YieldedStateIsNotChanged ==
    kept # <<>> => PosesNow(kept[1].state) = kept[1].poses

\* C27: in every reachable state placed_components and
\* footprints_not_placed_yet are disjoint, and the exception of line 188 ('a
\* component is in both self.placed_components &
\* self.footprints_not_placed_yet') is never raised.
C27_PlacedAndWaitingDisjoint ==
    /\ placed_components \cap footprints_not_placed_yet = {}
    /\ pc # "raised"

C27_Witness ==
    /\ pc = "ring"
    /\ footprints_not_placed_yet # {}
    /\ locked_components(footprints) # {}
    /\ placement_candidate \notin placed_components

\* C28: whenever the status is Success, the waitlist is empty, no footprint
\* is left in a batch, and every footprint of the board is in
\* placed_components with placed set.
C28_SuccessMeansAllPlaced ==
    placement_status.status = "success" =>
        /\ footprints_not_placed_yet = {}
        /\ placement_batch = {}
        /\ placed_components = 1..Len(footprints)
        /\ \A f \in 1..Len(footprints) : footprints[f].placed

C28_Witness ==
    /\ placement_status.status = "success"
    /\ pc = "done"
    /\ Len(footprints) >= 2
    /\ NonLockedPlaced # {}
    /\ locked_components(footprints) # {}

\* C29: the placement terminates when the generator is resumed again and
\* again: every iteration of the main loop takes at least one footprint off
\* the waitlist, every sweep tests rings of radius 0..999 only, and the
\* generator reaches its final yield.
C29_Terminates ==
    /\ <>(pc = "done")
    /\ [][(pc = "loop" /\ pc' = "batch") =>
             Cardinality(footprints_not_placed_yet') < Cardinality(footprints_not_placed_yet)]_vars
    /\ [](pc = "sweep" => radius <= max_radius - 1)

C29_Witness ==
    /\ pc = "done"
    /\ yields = 1
    /\ Len(footprints) >= 2
    /\ \E f \in 1..Len(footprints) : tested[f] > 0
    /\ \E f \in 1..Len(footprints) : tested[f] = 0 /\ ~ footprints[f].locked

\* C30: points_on_circle(center, r, 1) yields one point, the centre, for
\* r = 0 and, for every integer r >= 1, exactly 8 * r pairwise distinct
\* points, each at Chebyshev distance exactly r from the centre: every
\* lattice point of the perimeter of the square of half-side r exactly once.
Chebyshev(p, q) == Max(Abs(p.x - q.x), Abs(p.y - q.y))

Perimeter(c, r) ==
    {Vector2D(c.x + U(i), c.y + U(j)) : i \in -r..r, j \in -r..r} \
    {Vector2D(c.x + U(i), c.y + U(j)) : i \in (1 - r)..(r - 1), j \in (1 - r)..(r - 1)}

PerimeterOnce(points, c, r) ==
    /\ Len(points) = IF r = 0 THEN 1 ELSE 8 * r
    /\ \A i \in 1..Len(points), j \in 1..Len(points) : i # j => points[i] # points[j]
    /\ \A i \in 1..Len(points) : Chebyshev(points[i], c) = U(r)
    /\ Range(points) = Perimeter(c, r)
    /\ r = 0 => points = <<c>>

C30_PerimeterExactlyOnce ==
    pc = "circle_done" =>
        /\ last_call = <<search_center, radius, 1>>
        /\ PerimeterOnce(returned[1], search_center, radius)

C30_Witness ==
    /\ pc = "circle_done"
    /\ radius = 2
    /\ Len(returned[1]) = 16
    /\ search_center = Vector2D(U(1) \div 2, - U(1))
    /\ returned[1][1] = Vector2D(search_center.x + U(2), search_center.y - U(2))
    /\ returned[1][16] = Vector2D(search_center.x + U(2), search_center.y - U(1))

====
